---- MODULE Spec2Model ----
(***************************************************************************)
(* Dokploy MCP server (src/src/index.ts): the request helper               *)
(* dokployRequest, the configuration schema, the tools registered by       *)
(* createServer and the dispatch of one tool invocation.                   *)
(*                                                                         *)
(* JavaScript values are tagged records of one shape, so that any two of   *)
(* them can be compared.  Texts (URLs, JSON documents, messages) are       *)
(* strings built by concatenation, as the code builds them.  The leading   *)
(* pictograph of the handlers' message literals is left out of the message *)
(* texts; the rest of each literal is kept.                                *)
(***************************************************************************)
EXTENDS Integers, Sequences, FiniteSets, TLC

VARIABLES config, startup, registry, pc, tool, args, calls, outcome, raised, result, console, other

vars == <<config, startup, registry, pc, tool, args, calls, outcome, raised, result, console, other>>

----------------------------------------------------------------------------
(* JavaScript values *)

Undef == [t |-> "undefined", s |-> "", n |-> 0, b |-> FALSE, items |-> <<>>]

Null == [t |-> "null", s |-> "", n |-> 0, b |-> FALSE, items |-> <<>>]

Str(x) == [t |-> "string", s |-> x, n |-> 0, b |-> FALSE, items |-> <<>>]

Num(x) == [t |-> "number", s |-> "", n |-> x, b |-> FALSE, items |-> <<>>]

Bool(x) == [t |-> "boolean", s |-> "", n |-> 0, b |-> x, items |-> <<>>]

KV(key, value) == [k |-> key, v |-> value]

Obj(kvs) == [t |-> "object", s |-> "", n |-> 0, b |-> FALSE, items |-> kvs]

Arr(xs) == [t |-> "array", s |-> "", n |-> 0, b |-> FALSE, items |-> [i \in 1..Len(xs) |-> KV("", xs[i])]]

Truthy(v) ==
  CASE v.t = "undefined" -> FALSE
    [] v.t = "null" -> FALSE
    [] v.t = "string" -> v.s # ""
    [] v.t = "number" -> v.n # 0
    [] v.t = "boolean" -> v.b
    [] OTHER -> TRUE

RECURSIVE Join(_, _)
Join(parts, sep) ==
  IF Len(parts) = 0 THEN ""
  ELSE IF Len(parts) = 1 THEN parts[1]
  ELSE parts[1] \o sep \o Join(Tail(parts), sep)

RECURSIVE Spaces(_)
Spaces(k) == IF k <= 0 THEN "" ELSE " " \o Spaces(k - 1)

Quote(x) == "\"" \o x \o "\""

(* `${v}` in a template literal *)
TemplateString(v) ==
  CASE v.t = "string" -> v.s
    [] v.t = "number" -> ToString(v.n)
    [] v.t = "boolean" -> (IF v.b THEN "true" ELSE "false")
    [] v.t = "undefined" -> "undefined"
    [] v.t = "null" -> "null"
    [] OTHER -> "[object Object]"

Present(kvs) == SelectSeq(kvs, LAMBDA e : e.v.t # "undefined")

(* JSON.stringify(v): members whose value is undefined are left out *)
RECURSIVE JsonStringify(_)
JsonStringify(v) ==
  CASE v.t = "string" -> Quote(v.s)
    [] v.t = "number" -> ToString(v.n)
    [] v.t = "boolean" -> (IF v.b THEN "true" ELSE "false")
    [] v.t = "object" ->
         LET kept == Present(v.items)
         IN "{" \o Join([i \in 1..Len(kept) |-> Quote(kept[i].k) \o ":" \o JsonStringify(kept[i].v)], ",") \o "}"
    [] v.t = "array" ->
         "[" \o Join([i \in 1..Len(v.items) |->
                        IF v.items[i].v.t = "undefined" THEN "null" ELSE JsonStringify(v.items[i].v)], ",") \o "]"
    [] OTHER -> "null"

(* JSON.stringify(v, null, 2) at nesting depth d *)
RECURSIVE JsonPretty(_, _)
JsonPretty(v, d) ==
  CASE v.t = "object" ->
         LET kept == Present(v.items)
         IN IF Len(kept) = 0 THEN "{}"
            ELSE "{\n"
                 \o Join([i \in 1..Len(kept) |->
                           Spaces(2 * (d + 1)) \o Quote(kept[i].k) \o ": " \o JsonPretty(kept[i].v, d + 1)], ",\n")
                 \o "\n" \o Spaces(2 * d) \o "}"
    [] v.t = "array" ->
         IF Len(v.items) = 0 THEN "[]"
         ELSE "[\n"
              \o Join([i \in 1..Len(v.items) |->
                        Spaces(2 * (d + 1)) \o
                        (IF v.items[i].v.t = "undefined" THEN "null" ELSE JsonPretty(v.items[i].v, d + 1))], ",\n")
              \o "\n" \o Spaces(2 * d) \o "]"
    [] OTHER -> JsonStringify(v)

----------------------------------------------------------------------------
(* Configuration *)

DefaultUrl == "https://dok.bish.one"

(* process.env as configSchema reads it: a variable that is not set is Undef *)
Envs ==
  { [DOKPLOY_URL |-> Undef, DOKPLOY_API_TOKEN |-> Undef, DEBUG |-> Undef],
    [DOKPLOY_URL |-> Undef, DOKPLOY_API_TOKEN |-> Str("tok-env"), DEBUG |-> Undef] }

(* the configuration a caller supplies: an option left out is Undef *)
RawConfigs ==
  [dokployUrl : {Undef, Str("http://localhost:3000")},
   apiToken : {Undef, Str(""), Str("tok-A")},
   debug : {Undef, Bool(TRUE)}]

(* x || y *)
Or(x, y) == IF Truthy(x) THEN x ELSE y

(* configSchema.parse(raw): a zod default stands in for an option left out *)
ConfigSchemaParse(raw, env) ==
  [dokployUrl |-> (IF raw.dokployUrl.t = "undefined"
                   THEN Or(env.DOKPLOY_URL, Str(DefaultUrl)) ELSE raw.dokployUrl).s,
   apiToken |-> (IF raw.apiToken.t = "undefined"
                 THEN Or(env.DOKPLOY_API_TOKEN, Str("")) ELSE raw.apiToken).s,
   debug |-> (IF raw.debug.t = "undefined"
              THEN Or(Bool(env.DEBUG = Str("true")), Bool(FALSE)) ELSE raw.debug).b]

(* createServer: an empty apiToken is reported on stderr, and the server is built all the same *)
CreateServerErrors(cfg) ==
  IF cfg.apiToken = ""
  THEN << "DOKPLOY_API_TOKEN environment variable is not set!",
          "Please set your Dokploy API token in the environment variables.",
          "Example: DOKPLOY_API_TOKEN=your-token-here" >>
  ELSE << >>

----------------------------------------------------------------------------
(* Tool declarations *)

(* one member of an inputSchema; presence is "required", "optional" or "default" *)
F(fname, ftype, members, presence, dflt) ==
  [name |-> fname, type |-> ftype, enum |-> members, presence |-> presence, default |-> dflt]

(* one member of the object a handler passes as request body: *)
(* "plain" is `k`, "or" is `k: k || alt`                        *)
B(key, kind, alt) == [k |-> key, kind |-> kind, alt |-> alt]

Tools ==
  <<
  [name |-> "list-projects", method |-> "GET", path |-> "/project.all",
   schema |-> <<>>,
   qkind |-> "none", query |-> <<>>,
   hasBody |-> FALSE, body |-> <<>>,
   reply |-> "json", msg |-> ""],
  [name |-> "create-project", method |-> "POST", path |-> "/project.create",
   schema |-> <<F("name", "string", {}, "required", Undef),
               F("description", "string", {}, "optional", Undef)>>,
   qkind |-> "none", query |-> <<>>,
   hasBody |-> TRUE, body |-> <<B("name", "plain", Undef),
             B("description", "or", Str(""))>>,
   reply |-> "prefixed", msg |-> "Project created successfully!"],
  [name |-> "delete-project", method |-> "POST", path |-> "/project.remove",
   schema |-> <<F("projectId", "string", {}, "required", Undef)>>,
   qkind |-> "none", query |-> <<>>,
   hasBody |-> TRUE, body |-> <<B("projectId", "plain", Undef)>>,
   reply |-> "fixed", msg |-> "Project deleted successfully!"],
  [name |-> "list-applications", method |-> "GET", path |-> "/application.all",
   schema |-> <<F("projectId", "string", {}, "required", Undef)>>,
   qkind |-> "template", query |-> <<"projectId">>,
   hasBody |-> FALSE, body |-> <<>>,
   reply |-> "json", msg |-> ""],
  [name |-> "create-application", method |-> "POST", path |-> "/application.create",
   schema |-> <<F("projectId", "string", {}, "required", Undef),
               F("name", "string", {}, "required", Undef),
               F("appType", "enum", {"docker", "git", "github"}, "default", Str("github")),
               F("repository", "string", {}, "optional", Undef),
               F("branch", "string", {}, "default", Str("main")),
               F("buildPath", "string", {}, "default", Str("/")),
               F("dockerfile", "string", {}, "optional", Undef),
               F("env", "record", {}, "optional", Undef)>>,
   qkind |-> "none", query |-> <<>>,
   hasBody |-> TRUE, body |-> <<B("projectId", "plain", Undef),
             B("name", "plain", Undef),
             B("appType", "plain", Undef),
             B("repository", "plain", Undef),
             B("branch", "plain", Undef),
             B("buildPath", "plain", Undef),
             B("dockerfile", "plain", Undef),
             B("env", "or", Obj(<<>>))>>,
   reply |-> "prefixed", msg |-> "Application created successfully!"],
  [name |-> "deploy-application", method |-> "POST", path |-> "/application.deploy",
   schema |-> <<F("applicationId", "string", {}, "required", Undef)>>,
   qkind |-> "none", query |-> <<>>,
   hasBody |-> TRUE, body |-> <<B("applicationId", "plain", Undef)>>,
   reply |-> "prefixed", msg |-> "Deployment started!"],
  [name |-> "stop-application", method |-> "POST", path |-> "/application.stop",
   schema |-> <<F("applicationId", "string", {}, "required", Undef)>>,
   qkind |-> "none", query |-> <<>>,
   hasBody |-> TRUE, body |-> <<B("applicationId", "plain", Undef)>>,
   reply |-> "fixed", msg |-> "Application stopped successfully!"],
  [name |-> "start-application", method |-> "POST", path |-> "/application.start",
   schema |-> <<F("applicationId", "string", {}, "required", Undef)>>,
   qkind |-> "none", query |-> <<>>,
   hasBody |-> TRUE, body |-> <<B("applicationId", "plain", Undef)>>,
   reply |-> "fixed", msg |-> "Application started successfully!"],
  [name |-> "restart-application", method |-> "POST", path |-> "/application.restart",
   schema |-> <<F("applicationId", "string", {}, "required", Undef)>>,
   qkind |-> "none", query |-> <<>>,
   hasBody |-> TRUE, body |-> <<B("applicationId", "plain", Undef)>>,
   reply |-> "fixed", msg |-> "Application restarted successfully!"],
  [name |-> "delete-application", method |-> "POST", path |-> "/application.remove",
   schema |-> <<F("applicationId", "string", {}, "required", Undef)>>,
   qkind |-> "none", query |-> <<>>,
   hasBody |-> TRUE, body |-> <<B("applicationId", "plain", Undef)>>,
   reply |-> "fixed", msg |-> "Application deleted successfully!"],
  [name |-> "create-database", method |-> "POST", path |-> "/database.create",
   schema |-> <<F("projectId", "string", {}, "required", Undef),
               F("name", "string", {}, "required", Undef),
               F("type", "enum", {"postgres", "mysql", "mongodb", "redis", "mariadb"}, "required", Undef),
               F("databaseName", "string", {}, "optional", Undef),
               F("username", "string", {}, "optional", Undef),
               F("password", "string", {}, "optional", Undef)>>,
   qkind |-> "none", query |-> <<>>,
   hasBody |-> TRUE, body |-> <<B("projectId", "plain", Undef),
             B("name", "plain", Undef),
             B("type", "plain", Undef),
             B("databaseName", "plain", Undef),
             B("username", "plain", Undef),
             B("password", "plain", Undef)>>,
   reply |-> "prefixed", msg |-> "Database created successfully!"],
  [name |-> "list-databases", method |-> "GET", path |-> "/database.all",
   schema |-> <<F("projectId", "string", {}, "required", Undef)>>,
   qkind |-> "template", query |-> <<"projectId">>,
   hasBody |-> FALSE, body |-> <<>>,
   reply |-> "json", msg |-> ""],
  [name |-> "list-composes", method |-> "GET", path |-> "/compose.all",
   schema |-> <<F("projectId", "string", {}, "required", Undef)>>,
   qkind |-> "template", query |-> <<"projectId">>,
   hasBody |-> FALSE, body |-> <<>>,
   reply |-> "json", msg |-> ""],
  [name |-> "create-compose", method |-> "POST", path |-> "/compose.create",
   schema |-> <<F("projectId", "string", {}, "required", Undef),
               F("name", "string", {}, "required", Undef),
               F("appName", "string", {}, "optional", Undef),
               F("description", "string", {}, "optional", Undef),
               F("dockerComposeFile", "string", {}, "optional", Undef),
               F("dockerComposeFilePath", "string", {}, "optional", Undef),
               F("repository", "string", {}, "optional", Undef),
               F("branch", "string", {}, "default", Str("main")),
               F("buildPath", "string", {}, "default", Str("/")),
               F("env", "record", {}, "optional", Undef)>>,
   qkind |-> "none", query |-> <<>>,
   hasBody |-> TRUE, body |-> <<B("projectId", "plain", Undef),
             B("name", "plain", Undef),
             B("appName", "plain", Undef),
             B("description", "or", Str("")),
             B("dockerComposeFile", "plain", Undef),
             B("dockerComposeFilePath", "plain", Undef),
             B("repository", "plain", Undef),
             B("branch", "plain", Undef),
             B("buildPath", "plain", Undef),
             B("env", "or", Obj(<<>>))>>,
   reply |-> "prefixed", msg |-> "Docker Compose application created successfully!"],
  [name |-> "deploy-compose", method |-> "POST", path |-> "/compose.deploy",
   schema |-> <<F("composeId", "string", {}, "required", Undef)>>,
   qkind |-> "none", query |-> <<>>,
   hasBody |-> TRUE, body |-> <<B("composeId", "plain", Undef)>>,
   reply |-> "prefixed", msg |-> "Docker Compose deployment started!"],
  [name |-> "stop-compose", method |-> "POST", path |-> "/compose.stop",
   schema |-> <<F("composeId", "string", {}, "required", Undef)>>,
   qkind |-> "none", query |-> <<>>,
   hasBody |-> TRUE, body |-> <<B("composeId", "plain", Undef)>>,
   reply |-> "fixed", msg |-> "Docker Compose application stopped successfully!"],
  [name |-> "start-compose", method |-> "POST", path |-> "/compose.start",
   schema |-> <<F("composeId", "string", {}, "required", Undef)>>,
   qkind |-> "none", query |-> <<>>,
   hasBody |-> TRUE, body |-> <<B("composeId", "plain", Undef)>>,
   reply |-> "fixed", msg |-> "Docker Compose application started successfully!"],
  [name |-> "restart-compose", method |-> "POST", path |-> "/compose.restart",
   schema |-> <<F("composeId", "string", {}, "required", Undef)>>,
   qkind |-> "none", query |-> <<>>,
   hasBody |-> TRUE, body |-> <<B("composeId", "plain", Undef)>>,
   reply |-> "fixed", msg |-> "Docker Compose application restarted successfully!"],
  [name |-> "delete-compose", method |-> "POST", path |-> "/compose.remove",
   schema |-> <<F("composeId", "string", {}, "required", Undef)>>,
   qkind |-> "none", query |-> <<>>,
   hasBody |-> TRUE, body |-> <<B("composeId", "plain", Undef)>>,
   reply |-> "fixed", msg |-> "Docker Compose application deleted successfully!"],
  [name |-> "get-compose-logs", method |-> "GET", path |-> "/compose.logs",
   schema |-> <<F("composeId", "string", {}, "required", Undef),
               F("lines", "number", {}, "default", Num(100))>>,
   qkind |-> "template", query |-> <<"composeId", "lines">>,
   hasBody |-> FALSE, body |-> <<>>,
   reply |-> "logs", msg |-> ""],
  [name |-> "get-compose-status", method |-> "GET", path |-> "/compose.status",
   schema |-> <<F("composeId", "string", {}, "required", Undef)>>,
   qkind |-> "template", query |-> <<"composeId">>,
   hasBody |-> FALSE, body |-> <<>>,
   reply |-> "json", msg |-> ""],
  [name |-> "list-git-providers", method |-> "GET", path |-> "/git-provider.all",
   schema |-> <<>>,
   qkind |-> "none", query |-> <<>>,
   hasBody |-> FALSE, body |-> <<>>,
   reply |-> "json", msg |-> ""],
  [name |-> "create-github-provider", method |-> "POST", path |-> "/github.create",
   schema |-> <<F("name", "string", {}, "required", Undef),
               F("githubAppName", "string", {}, "optional", Undef),
               F("githubAppId", "string", {}, "optional", Undef),
               F("githubClientId", "string", {}, "optional", Undef),
               F("githubClientSecret", "string", {}, "optional", Undef),
               F("githubInstallationId", "string", {}, "optional", Undef),
               F("githubPrivateKey", "string", {}, "optional", Undef)>>,
   qkind |-> "none", query |-> <<>>,
   hasBody |-> TRUE, body |-> <<B("name", "plain", Undef),
             B("githubAppName", "plain", Undef),
             B("githubAppId", "plain", Undef),
             B("githubClientId", "plain", Undef),
             B("githubClientSecret", "plain", Undef),
             B("githubInstallationId", "plain", Undef),
             B("githubPrivateKey", "plain", Undef)>>,
   reply |-> "prefixed", msg |-> "GitHub provider created successfully!"],
  [name |-> "create-gitlab-provider", method |-> "POST", path |-> "/gitlab.create",
   schema |-> <<F("name", "string", {}, "required", Undef),
               F("gitlabUrl", "string", {}, "optional", Undef),
               F("applicationId", "string", {}, "optional", Undef),
               F("secret", "string", {}, "optional", Undef),
               F("redirectUrl", "string", {}, "optional", Undef),
               F("groupName", "string", {}, "optional", Undef)>>,
   qkind |-> "none", query |-> <<>>,
   hasBody |-> TRUE, body |-> <<B("name", "plain", Undef),
             B("gitlabUrl", "plain", Undef),
             B("applicationId", "plain", Undef),
             B("secret", "plain", Undef),
             B("redirectUrl", "plain", Undef),
             B("groupName", "plain", Undef)>>,
   reply |-> "prefixed", msg |-> "GitLab provider created successfully!"],
  [name |-> "create-gitea-provider", method |-> "POST", path |-> "/gitea.create",
   schema |-> <<F("name", "string", {}, "required", Undef),
               F("giteaUrl", "string", {}, "optional", Undef),
               F("applicationId", "string", {}, "optional", Undef),
               F("secret", "string", {}, "optional", Undef),
               F("redirectUrl", "string", {}, "optional", Undef)>>,
   qkind |-> "none", query |-> <<>>,
   hasBody |-> TRUE, body |-> <<B("name", "plain", Undef),
             B("giteaUrl", "plain", Undef),
             B("applicationId", "plain", Undef),
             B("secret", "plain", Undef),
             B("redirectUrl", "plain", Undef)>>,
   reply |-> "prefixed", msg |-> "Gitea provider created successfully!"],
  [name |-> "create-bitbucket-provider", method |-> "POST", path |-> "/bitbucket.create",
   schema |-> <<F("name", "string", {}, "required", Undef),
               F("bitbucketUsername", "string", {}, "optional", Undef),
               F("bitbucketAppPassword", "string", {}, "optional", Undef),
               F("bitbucketWorkspaceName", "string", {}, "optional", Undef)>>,
   qkind |-> "none", query |-> <<>>,
   hasBody |-> TRUE, body |-> <<B("name", "plain", Undef),
             B("bitbucketUsername", "plain", Undef),
             B("bitbucketAppPassword", "plain", Undef),
             B("bitbucketWorkspaceName", "plain", Undef)>>,
   reply |-> "prefixed", msg |-> "Bitbucket provider created successfully!"],
  [name |-> "list-servers", method |-> "GET", path |-> "/server.all",
   schema |-> <<>>,
   qkind |-> "none", query |-> <<>>,
   hasBody |-> FALSE, body |-> <<>>,
   reply |-> "json", msg |-> ""],
  [name |-> "create-server", method |-> "POST", path |-> "/server.create",
   schema |-> <<F("name", "string", {}, "required", Undef),
               F("ipAddress", "string", {}, "required", Undef),
               F("port", "number", {}, "default", Num(22)),
               F("username", "string", {}, "default", Str("root")),
               F("description", "string", {}, "optional", Undef)>>,
   qkind |-> "none", query |-> <<>>,
   hasBody |-> TRUE, body |-> <<B("name", "plain", Undef),
             B("ipAddress", "plain", Undef),
             B("port", "plain", Undef),
             B("username", "plain", Undef),
             B("description", "or", Str(""))>>,
   reply |-> "prefixed", msg |-> "Server created successfully!"],
  [name |-> "get-server-status", method |-> "GET", path |-> "/server.status",
   schema |-> <<F("serverId", "string", {}, "required", Undef)>>,
   qkind |-> "template", query |-> <<"serverId">>,
   hasBody |-> FALSE, body |-> <<>>,
   reply |-> "json", msg |-> ""],
  [name |-> "list-users", method |-> "GET", path |-> "/user.all",
   schema |-> <<>>,
   qkind |-> "none", query |-> <<>>,
   hasBody |-> FALSE, body |-> <<>>,
   reply |-> "json", msg |-> ""],
  [name |-> "create-user", method |-> "POST", path |-> "/user.create",
   schema |-> <<F("email", "email", {}, "required", Undef),
               F("password", "string", {}, "required", Undef),
               F("name", "string", {}, "optional", Undef),
               F("isAdmin", "boolean", {}, "default", Bool(FALSE))>>,
   qkind |-> "none", query |-> <<>>,
   hasBody |-> TRUE, body |-> <<B("email", "plain", Undef),
             B("password", "plain", Undef),
             B("name", "plain", Undef),
             B("isAdmin", "plain", Undef)>>,
   reply |-> "prefixed", msg |-> "User created successfully!"],
  [name |-> "list-certificates", method |-> "GET", path |-> "/certificate.all",
   schema |-> <<>>,
   qkind |-> "none", query |-> <<>>,
   hasBody |-> FALSE, body |-> <<>>,
   reply |-> "json", msg |-> ""],
  [name |-> "create-certificate", method |-> "POST", path |-> "/certificate.create",
   schema |-> <<F("name", "string", {}, "required", Undef),
               F("certificate", "string", {}, "required", Undef),
               F("privateKey", "string", {}, "required", Undef)>>,
   qkind |-> "none", query |-> <<>>,
   hasBody |-> TRUE, body |-> <<B("name", "plain", Undef),
             B("certificate", "plain", Undef),
             B("privateKey", "plain", Undef)>>,
   reply |-> "prefixed", msg |-> "SSL certificate created successfully!"],
  [name |-> "list-notifications", method |-> "GET", path |-> "/notification.all",
   schema |-> <<>>,
   qkind |-> "none", query |-> <<>>,
   hasBody |-> FALSE, body |-> <<>>,
   reply |-> "json", msg |-> ""],
  [name |-> "create-notification", method |-> "POST", path |-> "/notification.create",
   schema |-> <<F("name", "string", {}, "required", Undef),
               F("type", "enum", {"discord", "slack", "telegram", "email"}, "required", Undef),
               F("webhookUrl", "string", {}, "optional", Undef),
               F("botToken", "string", {}, "optional", Undef),
               F("chatId", "string", {}, "optional", Undef),
               F("smtpUrl", "string", {}, "optional", Undef),
               F("to", "string", {}, "optional", Undef)>>,
   qkind |-> "none", query |-> <<>>,
   hasBody |-> TRUE, body |-> <<B("name", "plain", Undef),
             B("type", "plain", Undef),
             B("webhookUrl", "plain", Undef),
             B("botToken", "plain", Undef),
             B("chatId", "plain", Undef),
             B("smtpUrl", "plain", Undef),
             B("to", "plain", Undef)>>,
   reply |-> "prefixed", msg |-> "Notification created successfully!"],
  [name |-> "list-ssh-keys", method |-> "GET", path |-> "/ssh-key.all",
   schema |-> <<>>,
   qkind |-> "none", query |-> <<>>,
   hasBody |-> FALSE, body |-> <<>>,
   reply |-> "json", msg |-> ""],
  [name |-> "create-ssh-key", method |-> "POST", path |-> "/ssh-key.create",
   schema |-> <<F("name", "string", {}, "required", Undef),
               F("description", "string", {}, "optional", Undef),
               F("privateKey", "string", {}, "required", Undef),
               F("publicKey", "string", {}, "optional", Undef)>>,
   qkind |-> "none", query |-> <<>>,
   hasBody |-> TRUE, body |-> <<B("name", "plain", Undef),
             B("description", "or", Str("")),
             B("privateKey", "plain", Undef),
             B("publicKey", "plain", Undef)>>,
   reply |-> "prefixed", msg |-> "SSH key created successfully!"],
  [name |-> "get-settings", method |-> "GET", path |-> "/settings.all",
   schema |-> <<>>,
   qkind |-> "none", query |-> <<>>,
   hasBody |-> FALSE, body |-> <<>>,
   reply |-> "json", msg |-> ""],
  [name |-> "update-settings", method |-> "POST", path |-> "/settings.update",
   schema |-> <<F("enableDockerCleanup", "boolean", {}, "optional", Undef),
               F("enableDockerPrune", "boolean", {}, "optional", Undef),
               F("dockerCleanupInterval", "string", {}, "optional", Undef),
               F("enableStats", "boolean", {}, "optional", Undef),
               F("serverTimezone", "string", {}, "optional", Undef)>>,
   qkind |-> "none", query |-> <<>>,
   hasBody |-> TRUE, body |-> <<B("enableDockerCleanup", "plain", Undef),
             B("enableDockerPrune", "plain", Undef),
             B("dockerCleanupInterval", "plain", Undef),
             B("enableStats", "plain", Undef),
             B("serverTimezone", "plain", Undef)>>,
   reply |-> "prefixed", msg |-> "System settings updated successfully!"],
  [name |-> "add-domain", method |-> "POST", path |-> "/domain.create",
   schema |-> <<F("applicationId", "string", {}, "required", Undef),
               F("domain", "string", {}, "required", Undef),
               F("enableSSL", "boolean", {}, "default", Bool(TRUE))>>,
   qkind |-> "none", query |-> <<>>,
   hasBody |-> TRUE, body |-> <<B("applicationId", "plain", Undef),
             B("domain", "plain", Undef),
             B("enableSSL", "plain", Undef)>>,
   reply |-> "prefixed", msg |-> "Domain added successfully!"],
  [name |-> "list-domains", method |-> "GET", path |-> "/domain.all",
   schema |-> <<F("applicationId", "string", {}, "required", Undef)>>,
   qkind |-> "template", query |-> <<"applicationId">>,
   hasBody |-> FALSE, body |-> <<>>,
   reply |-> "json", msg |-> ""],
  [name |-> "create-backup", method |-> "POST", path |-> "/backup.create",
   schema |-> <<F("databaseId", "string", {}, "required", Undef)>>,
   qkind |-> "none", query |-> <<>>,
   hasBody |-> TRUE, body |-> <<B("databaseId", "plain", Undef)>>,
   reply |-> "prefixed", msg |-> "Backup created successfully!"],
  [name |-> "list-backups", method |-> "GET", path |-> "/backup.all",
   schema |-> <<F("databaseId", "string", {}, "required", Undef)>>,
   qkind |-> "template", query |-> <<"databaseId">>,
   hasBody |-> FALSE, body |-> <<>>,
   reply |-> "json", msg |-> ""],
  [name |-> "restore-backup", method |-> "POST", path |-> "/backup.restore",
   schema |-> <<F("backupId", "string", {}, "required", Undef)>>,
   qkind |-> "none", query |-> <<>>,
   hasBody |-> TRUE, body |-> <<B("backupId", "plain", Undef)>>,
   reply |-> "prefixed", msg |-> "Backup restored successfully!"],
  [name |-> "get-logs", method |-> "GET", path |-> "/application.logs",
   schema |-> <<F("applicationId", "string", {}, "required", Undef),
               F("lines", "number", {}, "default", Num(100))>>,
   qkind |-> "template", query |-> <<"applicationId", "lines">>,
   hasBody |-> FALSE, body |-> <<>>,
   reply |-> "logs", msg |-> ""],
  [name |-> "get-application-status", method |-> "GET", path |-> "/application.status",
   schema |-> <<F("applicationId", "string", {}, "required", Undef)>>,
   qkind |-> "template", query |-> <<"applicationId">>,
   hasBody |-> FALSE, body |-> <<>>,
   reply |-> "json", msg |-> ""],
  [name |-> "update-env-vars", method |-> "POST", path |-> "/application.updateEnv",
   schema |-> <<F("applicationId", "string", {}, "required", Undef),
               F("env", "record", {}, "required", Undef)>>,
   qkind |-> "none", query |-> <<>>,
   hasBody |-> TRUE, body |-> <<B("applicationId", "plain", Undef),
             B("env", "plain", Undef)>>,
   reply |-> "prefixed", msg |-> "Environment variables updated successfully!"],
  [name |-> "list-deployments", method |-> "GET", path |-> "/deployment.all",
   schema |-> <<F("applicationId", "string", {}, "optional", Undef),
               F("composeId", "string", {}, "optional", Undef)>>,
   qkind |-> "searchParams", query |-> <<"applicationId", "composeId">>,
   hasBody |-> FALSE, body |-> <<>>,
   reply |-> "json", msg |-> ""],
  [name |-> "cancel-deployment", method |-> "POST", path |-> "/deployment.cancel",
   schema |-> <<F("applicationId", "string", {}, "optional", Undef),
               F("composeId", "string", {}, "optional", Undef)>>,
   qkind |-> "none", query |-> <<>>,
   hasBody |-> TRUE, body |-> <<B("applicationId", "plain", Undef),
             B("composeId", "plain", Undef)>>,
   reply |-> "prefixed", msg |-> "Deployment cancelled successfully!"],
  [name |-> "list-registries", method |-> "GET", path |-> "/registry.all",
   schema |-> <<>>,
   qkind |-> "none", query |-> <<>>,
   hasBody |-> FALSE, body |-> <<>>,
   reply |-> "json", msg |-> ""],
  [name |-> "create-registry", method |-> "POST", path |-> "/registry.create",
   schema |-> <<F("name", "string", {}, "required", Undef),
               F("registryUrl", "string", {}, "required", Undef),
               F("username", "string", {}, "optional", Undef),
               F("password", "string", {}, "optional", Undef)>>,
   qkind |-> "none", query |-> <<>>,
   hasBody |-> TRUE, body |-> <<B("name", "plain", Undef),
             B("registryUrl", "plain", Undef),
             B("username", "plain", Undef),
             B("password", "plain", Undef)>>,
   reply |-> "prefixed", msg |-> "Docker registry created successfully!"],
  [name |-> "list-redirects", method |-> "GET", path |-> "/redirect.all",
   schema |-> <<>>,
   qkind |-> "none", query |-> <<>>,
   hasBody |-> FALSE, body |-> <<>>,
   reply |-> "json", msg |-> ""],
  [name |-> "create-redirect", method |-> "POST", path |-> "/redirect.create",
   schema |-> <<F("domain", "string", {}, "required", Undef),
               F("redirect", "string", {}, "required", Undef),
               F("redirectType", "enum", {"temporary", "permanent"}, "default", Str("permanent"))>>,
   qkind |-> "none", query |-> <<>>,
   hasBody |-> TRUE, body |-> <<B("domain", "plain", Undef),
             B("redirect", "plain", Undef),
             B("redirectType", "plain", Undef)>>,
   reply |-> "prefixed", msg |-> "Redirect rule created successfully!"],
  [name |-> "list-schedules", method |-> "GET", path |-> "/schedule.all",
   schema |-> <<>>,
   qkind |-> "none", query |-> <<>>,
   hasBody |-> FALSE, body |-> <<>>,
   reply |-> "json", msg |-> ""],
  [name |-> "create-schedule", method |-> "POST", path |-> "/schedule.create",
   schema |-> <<F("name", "string", {}, "required", Undef),
               F("cronExpression", "string", {}, "required", Undef),
               F("applicationId", "string", {}, "optional", Undef),
               F("composeId", "string", {}, "optional", Undef),
               F("databaseId", "string", {}, "optional", Undef),
               F("enabled", "boolean", {}, "default", Bool(TRUE))>>,
   qkind |-> "none", query |-> <<>>,
   hasBody |-> TRUE, body |-> <<B("name", "plain", Undef),
             B("cronExpression", "plain", Undef),
             B("applicationId", "plain", Undef),
             B("composeId", "plain", Undef),
             B("databaseId", "plain", Undef),
             B("enabled", "plain", Undef)>>,
   reply |-> "prefixed", msg |-> "Schedule created successfully!"],
  [name |-> "list-rollbacks", method |-> "GET", path |-> "/rollbacks.all",
   schema |-> <<F("applicationId", "string", {}, "required", Undef)>>,
   qkind |-> "template", query |-> <<"applicationId">>,
   hasBody |-> FALSE, body |-> <<>>,
   reply |-> "json", msg |-> ""],
  [name |-> "rollback-application", method |-> "POST", path |-> "/rollbacks.rollback",
   schema |-> <<F("applicationId", "string", {}, "required", Undef),
               F("rollbackId", "string", {}, "required", Undef)>>,
   qkind |-> "none", query |-> <<>>,
   hasBody |-> TRUE, body |-> <<B("applicationId", "plain", Undef),
             B("rollbackId", "plain", Undef)>>,
   reply |-> "prefixed", msg |-> "Application rolled back successfully!"],
  [name |-> "list-volume-backups", method |-> "GET", path |-> "/volume-backups.all",
   schema |-> <<>>,
   qkind |-> "none", query |-> <<>>,
   hasBody |-> FALSE, body |-> <<>>,
   reply |-> "json", msg |-> ""],
  [name |-> "create-volume-backup", method |-> "POST", path |-> "/volume-backups.create",
   schema |-> <<F("name", "string", {}, "required", Undef),
               F("volumeName", "string", {}, "required", Undef),
               F("destinationPath", "string", {}, "optional", Undef)>>,
   qkind |-> "none", query |-> <<>>,
   hasBody |-> TRUE, body |-> <<B("name", "plain", Undef),
             B("volumeName", "plain", Undef),
             B("destinationPath", "plain", Undef)>>,
   reply |-> "prefixed", msg |-> "Volume backup created successfully!"],
  [name |-> "list-mounts", method |-> "GET", path |-> "/mount.all",
   schema |-> <<>>,
   qkind |-> "none", query |-> <<>>,
   hasBody |-> FALSE, body |-> <<>>,
   reply |-> "json", msg |-> ""],
  [name |-> "create-mount", method |-> "POST", path |-> "/mount.create",
   schema |-> <<F("name", "string", {}, "required", Undef),
               F("volumeName", "string", {}, "required", Undef),
               F("containerPath", "string", {}, "required", Undef),
               F("applicationId", "string", {}, "optional", Undef),
               F("composeId", "string", {}, "optional", Undef)>>,
   qkind |-> "none", query |-> <<>>,
   hasBody |-> TRUE, body |-> <<B("name", "plain", Undef),
             B("volumeName", "plain", Undef),
             B("containerPath", "plain", Undef),
             B("applicationId", "plain", Undef),
             B("composeId", "plain", Undef)>>,
   reply |-> "prefixed", msg |-> "Mount created successfully!"],
  [name |-> "list-ports", method |-> "GET", path |-> "/port.all",
   schema |-> <<>>,
   qkind |-> "none", query |-> <<>>,
   hasBody |-> FALSE, body |-> <<>>,
   reply |-> "json", msg |-> ""],
  [name |-> "create-port", method |-> "POST", path |-> "/port.create",
   schema |-> <<F("publishedPort", "number", {}, "required", Undef),
               F("targetPort", "number", {}, "required", Undef),
               F("protocol", "enum", {"tcp", "udp"}, "default", Str("tcp")),
               F("applicationId", "string", {}, "optional", Undef),
               F("composeId", "string", {}, "optional", Undef)>>,
   qkind |-> "none", query |-> <<>>,
   hasBody |-> TRUE, body |-> <<B("publishedPort", "plain", Undef),
             B("targetPort", "plain", Undef),
             B("protocol", "plain", Undef),
             B("applicationId", "plain", Undef),
             B("composeId", "plain", Undef)>>,
   reply |-> "prefixed", msg |-> "Port configuration created successfully!"]
  >>

ToolNames == {Tools[i].name : i \in 1..Len(Tools)}

ToolByName(nm) == Tools[CHOOSE i \in 1..Len(Tools) : Tools[i].name = nm]

FieldNames(t) == {t.schema[i].name : i \in 1..Len(t.schema)}

----------------------------------------------------------------------------
(* Argument validation (zod) *)

(* z.string().email() on the strings the model draws *)
IsEmail(x) == x \in {"a@b.co"}

TypeOk(f, v) ==
  CASE f.type = "string" -> v.t = "string"
    [] f.type = "email" -> v.t = "string" /\ IsEmail(v.s)
    [] f.type = "number" -> v.t = "number"
    [] f.type = "boolean" -> v.t = "boolean"
    [] f.type = "enum" -> v.t = "string" /\ v.s \in f.enum
    [] f.type = "record" -> v.t = "object" /\ \A i \in 1..Len(v.items) : v.items[i].v.t = "string"
    [] OTHER -> FALSE

(* a schema that lets anything through *)
FieldOk_Lax(f, v) == TRUE

FieldOk(f, v) ==
  IF v.t = "undefined" THEN f.presence # "required" ELSE TypeOk(f, v)

FieldParse(f, v) ==
  IF v.t = "undefined" /\ f.presence = "default" THEN f.default ELSE v

SchemaAccepts(t, raw) == \A i \in 1..Len(t.schema) : FieldOk(t.schema[i], raw[t.schema[i].name])

SchemaParse(t, raw) ==
  [nm \in FieldNames(t) |->
     LET f == t.schema[CHOOSE i \in 1..Len(t.schema) : t.schema[i].name = nm]
     IN FieldParse(f, raw[nm])]

----------------------------------------------------------------------------
(* Handlers: the endpoint and the body passed to dokployRequest *)

(* URLSearchParams serialisation of the strings the model draws *)
FormEncode(x) ==
  CASE x = "a b" -> "a+b"
    [] x = "a&b" -> "a%26b"
    [] OTHER -> x

(* the removal tools sent to the *.delete paths *)
Endpoint_DeleteVerb(t, data) ==
  LET path == CASE t.path = "/project.remove" -> "/project.delete"
                [] t.path = "/application.remove" -> "/application.delete"
                [] OTHER -> t.path
  IN CASE t.qkind = "template" ->
            path \o "?" \o Join([i \in 1..Len(t.query) |->
                                   t.query[i] \o "=" \o TemplateString(data[t.query[i]])], "&")
       [] t.qkind = "searchParams" ->
            LET given == SelectSeq(t.query, LAMBDA q : Truthy(data[q]))
                qs == Join([i \in 1..Len(given) |-> given[i] \o "=" \o FormEncode(data[given[i]].s)], "&")
            IN IF qs # "" THEN path \o "?" \o qs ELSE path
       [] OTHER -> path

Endpoint(t, data) ==
  CASE t.qkind = "template" ->
         t.path \o "?" \o Join([i \in 1..Len(t.query) |->
                                  t.query[i] \o "=" \o TemplateString(data[t.query[i]])], "&")
    [] t.qkind = "searchParams" ->
         LET given == SelectSeq(t.query, LAMBDA q : Truthy(data[q]))
             qs == Join([i \in 1..Len(given) |-> given[i] \o "=" \o FormEncode(data[given[i]].s)], "&")
         IN IF qs # "" THEN t.path \o "?" \o qs ELSE t.path
    [] OTHER -> t.path

(* a body passed with every call, a GET included *)
RequestBody_Always(t, data) ==
  Obj([i \in 1..Len(t.body) |->
         KV(t.body[i].k,
            IF t.body[i].kind = "or" THEN Or(data[t.body[i].k], t.body[i].alt)
            ELSE data[t.body[i].k])])

(* a body built without the `|| alt` fallbacks *)
RequestBody_NoFallback(t, data) ==
  IF t.hasBody
  THEN Obj([i \in 1..Len(t.body) |-> KV(t.body[i].k, data[t.body[i].k])])
  ELSE Undef

RequestBody(t, data) ==
  IF t.hasBody
  THEN Obj([i \in 1..Len(t.body) |->
              KV(t.body[i].k,
                 IF t.body[i].kind = "or" THEN Or(data[t.body[i].k], t.body[i].alt)
                 ELSE data[t.body[i].k])])
  ELSE Undef

----------------------------------------------------------------------------
(* dokployRequest *)

NoError == [name |-> "", message |-> ""]

Header(hname, hvalue) == [name |-> hname, value |-> hvalue]

(* the URL put together without the "/api" segment *)
FetchCall_NoApiSegment(cfg, endpoint, method, body) ==
  [url |-> cfg.dokployUrl \o endpoint,
   method |-> method,
   headers |-> << Header("Content-Type", "application/json"),
                  Header("Accept", "application/json"),
                  Header("x-api-key", cfg.apiToken) >>,
   hasBody |-> Truthy(body),
   body |-> IF Truthy(body) THEN JsonStringify(body) ELSE ""]

(* the credential sent in both headers *)
FetchCall_BothHeaders(cfg, endpoint, method, body) ==
  [url |-> cfg.dokployUrl \o "/api" \o endpoint,
   method |-> method,
   headers |-> << Header("Content-Type", "application/json"),
                  Header("Accept", "application/json"),
                  Header("Authorization", "Bearer " \o cfg.apiToken),
                  Header("x-api-key", cfg.apiToken) >>,
   hasBody |-> Truthy(body),
   body |-> IF Truthy(body) THEN JsonStringify(body) ELSE ""]

(* the credential sent as a bearer token *)
FetchCall_Bearer(cfg, endpoint, method, body) ==
  [url |-> cfg.dokployUrl \o "/api" \o endpoint,
   method |-> method,
   headers |-> << Header("Content-Type", "application/json"),
                  Header("Accept", "application/json"),
                  Header("Authorization", "Bearer " \o cfg.apiToken) >>,
   hasBody |-> Truthy(body),
   body |-> IF Truthy(body) THEN JsonStringify(body) ELSE ""]

(* the call of fetch: URL, method, headers and body *)
FetchCall(cfg, endpoint, method, body) ==
  [url |-> cfg.dokployUrl \o "/api" \o endpoint,
   method |-> method,
   headers |-> << Header("Content-Type", "application/json"),
                  Header("Accept", "application/json"),
                  Header("x-api-key", cfg.apiToken) >>,
   hasBody |-> Truthy(body),
   body |-> IF Truthy(body) THEN JsonStringify(body) ELSE ""]

LogEntry(stream, text, err) == [stream |-> stream, text |-> text, error |-> err]

(* a debug line that prints the key the request is sent with *)
RequestLog_PrintsKey(cfg, endpoint, method) ==
  IF cfg.debug
  THEN << LogEntry("log", "[Dokploy API] " \o method \o " " \o cfg.dokployUrl \o "/api" \o endpoint
                          \o " key=" \o cfg.apiToken, NoError) >>
  ELSE << >>

(* console.log before the call, when debug is on *)
RequestLog(cfg, endpoint, method) ==
  IF cfg.debug
  THEN << LogEntry("log", "[Dokploy API] " \o method \o " " \o cfg.dokployUrl \o "/api" \o endpoint, NoError) >>
  ELSE << >>

(* documents the upstream is taken to answer with *)
App(id) == Obj(<< KV("applicationId", Str(id)) >>)

Grouping(id, nm, children) ==
  Obj(<< KV("environmentId", Str(id)), KV("name", Str(nm)), KV("applications", Arr(children)) >>)

(* a project whose applications lie in three groupings, of sizes 2, 0 and 1 *)
GroupedProject ==
  Obj(<< KV("projectId", Str("p1")),
         KV("environments", Arr(<< Grouping("e1", "production", << App("a1"), App("a2") >>),
                                   Grouping("e2", "staging", << >>),
                                   Grouping("e3", "dev", << App("a3") >>) >>)) >>)

JsonSamples ==
  { Obj(<< KV("projectId", Str("p1")), KV("name", Str("demo")) >>),
    Arr(<< >>),
    Str("line one"),
    GroupedProject }

(* response.json(): the value whose JSON text the body is, or a SyntaxError *)
ResponseJson(text) ==
  IF \E v \in JsonSamples : JsonStringify(v) = text
  THEN [ok |-> TRUE, value |-> CHOOSE v \in JsonSamples : JsonStringify(v) = text, error |-> NoError]
  ELSE [ok |-> FALSE, value |-> Undef,
        error |-> [name |-> "SyntaxError",
                   message |-> IF text = "" THEN "Unexpected end of JSON input"
                               ELSE "Unexpected token in JSON at position 0"]]

ResponseOk(status) == status >= 200 /\ status <= 299

Return(v) == [kind |-> "return", value |-> v, error |-> NoError]

Throw(e) == [kind |-> "throw", value |-> Undef, error |-> e]

NoOutcome == [kind |-> "none", status |-> 0, body |-> "", error |-> NoError]

Response(status, text) == [kind |-> "response", status |-> status, body |-> text, error |-> NoError]

Rejected(e) == [kind |-> "rejected", status |-> 0, body |-> "", error |-> e]

(* an error message that quotes the key the request was sent with *)
TryBlock_QuotesKey(out) ==
  IF out.kind = "rejected" THEN Throw(out.error)
  ELSE IF ~ResponseOk(out.status)
       THEN Throw([name |-> "Error",
                   message |-> "Dokploy API error (" \o ToString(out.status) \o "): " \o out.body
                                 \o " (x-api-key: " \o config.apiToken \o ")"])
       ELSE LET parsed == ResponseJson(out.body)
            IN IF parsed.ok THEN Return(parsed.value) ELSE Throw(parsed.error)

(* an error message that leaves out the response text *)
TryBlock_NoText(out) ==
  IF out.kind = "rejected" THEN Throw(out.error)
  ELSE IF ~ResponseOk(out.status)
       THEN Throw([name |-> "Error",
                   message |-> "Dokploy API error (" \o ToString(out.status) \o ")"])
       ELSE LET parsed == ResponseJson(out.body)
            IN IF parsed.ok THEN Return(parsed.value) ELSE Throw(parsed.error)

(* what the try block makes of the settled fetch *)
TryBlock(out) ==
  IF out.kind = "rejected" THEN Throw(out.error)
  ELSE IF ~ResponseOk(out.status)
       THEN Throw([name |-> "Error",
                   message |-> "Dokploy API error (" \o ToString(out.status) \o "): " \o out.body])
       ELSE LET parsed == ResponseJson(out.body)
            IN IF parsed.ok THEN Return(parsed.value) ELSE Throw(parsed.error)

(* a catch block that wraps whatever it caught in the API error *)
CatchBlock_Wraps(e) ==
  Throw([name |-> "Error", message |-> "Dokploy API error (0): " \o e.message])

(* a catch block that, with debug on, raises the line it logged in place of the error *)
CatchBlock_DebugRaisesLog(e) ==
  IF config.debug
  THEN Throw([name |-> "Error", message |-> "[Dokploy API] Error: " \o e.message])
  ELSE Throw(e)

(* the catch block rethrows what it caught *)
CatchBlock(e) == Throw(e)

DokployRequestSettle(out) ==
  LET r == TryBlock(out) IN IF r.kind = "throw" THEN CatchBlock(r.error) ELSE r

(* console.error in the catch block, when debug is on *)
ErrorLog(cfg, r) ==
  IF r.kind = "throw" /\ cfg.debug
  THEN << LogEntry("error", "[Dokploy API Error]", r.error) >>
  ELSE << >>

----------------------------------------------------------------------------
(* Handlers: the result built from what dokployRequest returned *)

ReplyText(t, v) ==
  CASE t.reply = "json" -> JsonPretty(v, 0)
    [] t.reply = "prefixed" -> t.msg \o "\n\n" \o JsonPretty(v, 0)
    [] t.reply = "logs" -> (IF v.t = "string" THEN v.s ELSE JsonPretty(v, 0))
    [] OTHER -> t.msg

NoResult == [kind |-> "none", text |-> "", error |-> NoError]

Content(text) == [kind |-> "content", text |-> text, error |-> NoError]

Failure(e) == [kind |-> "error", text |-> "", error |-> e]

(* a handler that answers with its fixed message whatever dokployRequest did *)
HandlerResult_Swallows(t, r) ==
  IF r.kind = "throw" /\ t.reply # "fixed" THEN Failure(r.error)
  ELSE IF r.kind = "throw" THEN Content(t.msg)
  ELSE Content(ReplyText(t, r.value))

(* a handler awaits dokployRequest outside any try block *)
HandlerResult(t, r) ==
  IF r.kind = "throw" THEN Failure(r.error) ELSE Content(ReplyText(t, r.value))

(* Resources and prompts: static text, built without any outbound call.       *)
(* Pictographs in the text are left out, as in the tools' messages, and a grave *)
(* accent is written as an apostrophe.                                         *)

(* registerResource: name and URI of each resource *)
Resources ==
  << [name |-> "dokploy-docs", uri |-> "dokploy://docs"],
     [name |-> "dokploy-quickstart", uri |-> "dokploy://quickstart"],
     [name |-> "dokploy-api-reference", uri |-> "dokploy://api-reference"] >>

ResourceUris == {Resources[i].uri : i \in 1..Len(Resources)}

(* the markdown a resource handler returns *)
ResourceText(cfg, uri) ==
  CASE uri = "dokploy://docs" ->
      "# Dokploy Documentation\n" \o
      "\n" \o
      "Dokploy is an open-source alternative to Netlify, Vercel, and Heroku. It allows you to deploy your applications easily using Docker and provides a simple API for management.\n" \o
      "\n" \o
      "## Key Features\n" \o
      "\n" \o
      "- **Easy Deployment**: Deploy applications from Git repositories with automatic builds\n" \o
      "- **Multiple Languages**: Support for Node.js, Python, Go, PHP, and more\n" \o
      "- **Database Support**: Built-in support for PostgreSQL, MySQL, MongoDB, Redis, and MariaDB\n" \o
      "- **Custom Domains**: Add custom domains with automatic SSL via Let's Encrypt\n" \o
      "- **Backups**: Automatic and manual database backups\n" \o
      "- **Monitoring**: Real-time logs and application status monitoring\n" \o
      "- **Environment Variables**: Secure environment variable management\n" \o
      "- **Docker Support**: Native Docker and Docker Compose support\n" \o
      "\n" \o
      "## Getting Started\n" \o
      "\n" \o
      "1. Create a new project using the 'create-project' tool\n" \o
      "2. Create an application within the project using 'create-application'\n" \o
      "3. Deploy your application using 'deploy-application'\n" \o
      "4. (Optional) Add a custom domain using 'add-domain'\n" \o
      "\n" \o
      "## API Reference\n" \o
      "\n" \o
      "Visit your Dokploy instance's Swagger documentation at: " \o
      cfg.dokployUrl \o
      "/swagger\n" \o
      "\n" \o
      "## Support\n" \o
      "\n" \o
      "- Documentation: https://docs.dokploy.com\n" \o
      "- GitHub: https://github.com/dokploy/dokploy\n" \o
      "- Discord: Join the Dokploy community\n" \o
      "\n" \o
      "## Best Practices\n" \o
      "\n" \o
      "- Always use environment variables for sensitive data\n" \o
      "- Enable SSL for production domains\n" \o
      "- Set up regular database backups\n" \o
      "- Monitor application logs regularly\n" \o
      "- Use health checks for critical applications\n"
    [] uri = "dokploy://quickstart" ->
      "# Dokploy Quick Start\n" \o
      "\n" \o
      "## Deploy Your First Application\n" \o
      "\n" \o
      "Follow these steps to deploy your first application on Dokploy:\n" \o
      "\n" \o
      "### Step 1: Create a Project\n" \o
      "'''\n" \o
      "Use the 'create-project' tool:\n" \o
      "- Name: my-first-project\n" \o
      "- Description: My first Dokploy project\n" \o
      "'''\n" \o
      "\n" \o
      "### Step 2: Create an Application\n" \o
      "'''\n" \o
      "Use the 'create-application' tool:\n" \o
      "- Project ID: (from step 1)\n" \o
      "- Name: my-app\n" \o
      "- App Type: github\n" \o
      "- Repository: https://github.com/yourusername/your-repo\n" \o
      "- Branch: main\n" \o
      "'''\n" \o
      "\n" \o
      "### Step 3: Deploy\n" \o
      "'''\n" \o
      "Use the 'deploy-application' tool with the application ID from step 2\n" \o
      "'''\n" \o
      "\n" \o
      "### Step 4: Monitor\n" \o
      "'''\n" \o
      "Check deployment status with 'get-application-status'\n" \o
      "View logs with 'get-logs'\n" \o
      "'''\n" \o
      "\n" \o
      "### Step 5: Add a Domain (Optional)\n" \o
      "'''\n" \o
      "Use the 'add-domain' tool to add your custom domain\n" \o
      "'''\n" \o
      "\n" \o
      "## Example: Deploy a Node.js App\n" \o
      "\n" \o
      "1. Create project: \"my-node-app\"\n" \o
      "2. Create application from your GitHub repository\n" \o
      "3. Set environment variables (if needed)\n" \o
      "4. Deploy!\n" \o
      "\n" \o
      "That's it! Your application will be live in minutes.\n"
    [] uri = "dokploy://api-reference" ->
      "# Dokploy API Reference\n" \o
      "\n" \o
      "Base URL: " \o
      cfg.dokployUrl \o
      "/api\n" \o
      "\n" \o
      "## Authentication\n" \o
      "All API requests require authentication using a Bearer token:\n" \o
      "'''\n" \o
      "Authorization: Bearer YOUR_API_TOKEN\n" \o
      "'''\n" \o
      "\n" \o
      "## Endpoints\n" \o
      "\n" \o
      "### Projects\n" \o
      "- 'GET /api/project.all' - List all projects\n" \o
      "- 'POST /api/project.create' - Create a new project\n" \o
      "- 'POST /api/project.remove' - Delete a project\n" \o
      "\n" \o
      "### Applications\n" \o
      "- 'GET /api/application.all' - List all applications\n" \o
      "- 'POST /api/application.create' - Create a new application\n" \o
      "- 'POST /api/application.deploy' - Deploy an application\n" \o
      "- 'POST /api/application.start' - Start an application\n" \o
      "- 'POST /api/application.stop' - Stop an application\n" \o
      "- 'POST /api/application.restart' - Restart an application\n" \o
      "- 'POST /api/application.remove' - Delete an application\n" \o
      "- 'GET /api/application.logs' - Get application logs\n" \o
      "- 'GET /api/application.status' - Get application status\n" \o
      "- 'POST /api/application.updateEnv' - Update environment variables\n" \o
      "\n" \o
      "### Databases\n" \o
      "- 'GET /api/database.all' - List all databases\n" \o
      "- 'POST /api/database.create' - Create a new database\n" \o
      "\n" \o
      "### Domains\n" \o
      "- 'GET /api/domain.all' - List all domains\n" \o
      "- 'POST /api/domain.create' - Add a new domain\n" \o
      "\n" \o
      "### Backups\n" \o
      "- 'GET /api/backup.all' - List all backups\n" \o
      "- 'POST /api/backup.create' - Create a backup\n" \o
      "- 'POST /api/backup.restore' - Restore from backup\n" \o
      "\n" \o
      "For full API documentation, visit: " \o
      cfg.dokployUrl \o
      "/swagger\n"
    [] OTHER -> ""

(* registerPrompt: name and argsSchema of each prompt *)
Prompts ==
  << [name |-> "deploy-app",
      schema |-> <<F("projectName", "string", {}, "required", Undef),
                  F("appName", "string", {}, "required", Undef),
                  F("repository", "string", {}, "required", Undef)>>],
     [name |-> "setup-database",
      schema |-> <<F("projectId", "string", {}, "required", Undef),
                  F("dbType", "enum", {"postgres", "mysql", "mongodb", "redis", "mariadb"}, "required", Undef),
                  F("dbName", "string", {}, "required", Undef)>>],
     [name |-> "troubleshoot",
      schema |-> <<F("applicationId", "string", {}, "required", Undef)>>] >>

PromptNames == {Prompts[i].name : i \in 1..Len(Prompts)}

PromptByName(nm) == Prompts[CHOOSE i \in 1..Len(Prompts) : Prompts[i].name = nm]

(* the user message a prompt handler returns *)
PromptText(nm, data) ==
  CASE nm = "deploy-app" ->
      "I want to deploy a new application on Dokploy. Here are the details:\n" \o
      "- Project Name: " \o
      TemplateString(data["projectName"]) \o
      "\n" \o
      "- Application Name: " \o
      TemplateString(data["appName"]) \o
      "\n" \o
      "- Repository: " \o
      TemplateString(data["repository"]) \o
      "\n" \o
      "\n" \o
      "Please help me:\n" \o
      "1. Create a new project\n" \o
      "2. Create an application in that project\n" \o
      "3. Deploy the application\n" \o
      "4. Check the deployment status\n" \o
      "\n" \o
      "Guide me through each step."
    [] nm = "setup-database" ->
      "I want to set up a " \o
      TemplateString(data["dbType"]) \o
      " database named \"" \o
      TemplateString(data["dbName"]) \o
      "\" in project " \o
      TemplateString(data["projectId"]) \o
      ".\n" \o
      "\n" \o
      "Please help me:\n" \o
      "1. Create the database\n" \o
      "2. Show me the connection details\n" \o
      "3. Set up automatic backups\n" \o
      "\n" \o
      "Guide me through the process."
    [] nm = "troubleshoot" ->
      "My application (ID: " \o
      TemplateString(data["applicationId"]) \o
      ") is having issues. Please help me troubleshoot by:\n" \o
      "1. Checking the application status\n" \o
      "2. Reviewing recent logs\n" \o
      "3. Suggesting potential fixes\n" \o
      "\n" \o
      "Start the diagnostic process."
    [] OTHER -> ""

(* the protocol layer's answer to prompt arguments that fail argsSchema *)
InvalidPromptArguments(nm) ==
  Failure([name |-> "McpError", message |-> "Invalid arguments for prompt " \o nm])

InvalidArguments(nm) ==
  Failure([name |-> "McpError", message |-> "Invalid arguments for tool " \o nm])

----------------------------------------------------------------------------
(* Inputs *)

(* how many arguments of one invocation differ from the tool's plain call *)
MaxVaried == 1

SampleRecord == Obj(<< KV("KEY", Str("demo")) >>)

(* raw argument values a caller may send for a field, well-typed or not *)
FieldChoices(f) ==
  {Undef} \cup
  ( CASE f.type = "string" -> {Str("demo"), Str(""), Num(7)}
      [] f.type = "email" -> {Str("a@b.co"), Str("demo"), Num(7)}
      [] f.type = "number" -> {Num(5), Str("demo")}
      [] f.type = "boolean" -> {Bool(TRUE), Bool(FALSE), Str("demo")}
      [] f.type = "enum" -> {Str(e) : e \in f.enum} \cup {Str("demo"), Num(7)}
      [] f.type = "record" -> {SampleRecord, Obj(<< >>), Obj(<< KV("KEY", Num(7)) >>), Str("demo")}
      [] OTHER -> {} )

(* the plain call: every required argument well-typed, every other one left out *)
FieldBase(f) ==
  IF f.presence # "required" THEN Undef
  ELSE CASE f.type = "string" -> Str("demo")
         [] f.type = "email" -> Str("a@b.co")
         [] f.type = "number" -> Num(5)
         [] f.type = "boolean" -> Bool(TRUE)
         [] f.type = "enum" -> Str(CHOOSE e \in f.enum : TRUE)
         [] OTHER -> SampleRecord

FieldOf(t, nm) == t.schema[CHOOSE i \in 1..Len(t.schema) : t.schema[i].name = nm]

RawArguments(t) ==
  UNION { { [nm \in FieldNames(t) |-> IF nm \in S THEN alt[nm] ELSE FieldBase(FieldOf(t, nm))] :
              alt \in [S -> UNION {FieldChoices(FieldOf(t, nm)) : nm \in S}] } :
          S \in {X \in SUBSET FieldNames(t) : Cardinality(X) <= MaxVaried} }

Statuses == {200, 204, 401, 500}

Bodies == {JsonStringify(v) : v \in JsonSamples} \cup {"", "Unauthorized"}

NetworkFailure == [name |-> "TypeError", message |-> "fetch failed"]

----------------------------------------------------------------------------
(* The server *)

NoRaise == [kind |-> "none", value |-> Undef, error |-> NoError]

(* a second invocation, set beside the one the other variables hold; pc "none": there is none *)
NoOther ==
  [config |-> [dokployUrl |-> "", apiToken |-> "", debug |-> FALSE],
   pc |-> "none", tool |-> "", args |-> << >>, calls |-> << >>,
   outcome |-> NoOutcome, raised |-> NoRaise, result |-> NoResult, console |-> << >>]

(* what createServer registers before it returns the server *)
(* a server on which list-projects was registered a second time *)
Registered_ToolTwice ==
  [tools |-> [i \in 1..Len(Tools) |-> Tools[i].name] \o << "list-projects" >>,
   resources |-> Resources,
   prompts |-> [i \in 1..Len(Prompts) |-> Prompts[i].name]]

Registered ==
  [tools |-> [i \in 1..Len(Tools) |-> Tools[i].name],
   resources |-> Resources,
   prompts |-> [i \in 1..Len(Prompts) |-> Prompts[i].name]]

(* the names the dispatcher can look up *)
Range(seq) == {seq[i] : i \in 1..Len(seq)}

Init ==
  /\ \E raw \in RawConfigs, env \in Envs : config = ConfigSchemaParse(raw, env)
  /\ startup = CreateServerErrors(config)
  /\ registry = Registered
  /\ pc = "idle"
  /\ tool = ""
  /\ args = << >>
  /\ calls = << >>
  /\ outcome = NoOutcome
  /\ raised = [kind |-> "none", value |-> Undef, error |-> NoError]
  /\ result = NoResult
  /\ console = << >>
  /\ other = NoOther

(* removal handlers that look the record up before they ask for its removal *)
CallTool_LooksUpFirst(nm, raw) ==
  /\ pc = "idle"
  /\ tool' = nm
  /\ args' = raw
  /\ LET t == ToolByName(nm)
     IN IF ~SchemaAccepts(t, raw)
        THEN /\ result' = InvalidArguments(nm)
             /\ pc' = "done"
             /\ UNCHANGED <<calls, console>>
        ELSE LET data == SchemaParse(t, raw)
                 endpoint == Endpoint(t, data)
                 body == RequestBody(t, data)
                 lookup == IF nm \in {"delete-project", "delete-application"}
                           THEN << FetchCall(config, "/project.all", "GET", Undef) >>
                           ELSE << >>
             IN /\ console' = console \o RequestLog(config, endpoint, t.method)
                /\ calls' = calls \o lookup \o << FetchCall(config, endpoint, t.method, body) >>
                /\ pc' = "awaiting"
                /\ UNCHANGED result
  /\ UNCHANGED <<config, startup, registry, outcome, raised, other>>

(* tools/call: the arguments are checked against the inputSchema, then the handler runs up to *)
(* the fetch it awaits                                                                       *)
CallTool(nm, raw) ==
  /\ pc = "idle"
  /\ tool' = nm
  /\ args' = raw
  /\ LET t == ToolByName(nm)
     IN IF ~SchemaAccepts(t, raw)
        THEN /\ result' = InvalidArguments(nm)
             /\ pc' = "done"
             /\ UNCHANGED <<calls, console>>
        ELSE LET data == SchemaParse(t, raw)
                 endpoint == Endpoint(t, data)
                 body == RequestBody(t, data)
             IN /\ console' = console \o RequestLog(config, endpoint, t.method)
                /\ calls' = Append(calls, FetchCall(config, endpoint, t.method, body))
                /\ pc' = "awaiting"
                /\ UNCHANGED result
  /\ UNCHANGED <<config, startup, registry, outcome, raised, other>>

(* a dokployRequest that issues the call once more after a failure *)
Settle_Retries(out) ==
  /\ pc = "awaiting"
  /\ IF DokployRequestSettle(out).kind = "throw" /\ Len(calls) < 2
     THEN /\ calls' = Append(calls, calls[1])
          /\ UNCHANGED <<pc, outcome, raised, result, console>>
     ELSE /\ outcome' = out
          /\ raised' = DokployRequestSettle(out)
          /\ console' = console \o ErrorLog(config, raised')
          /\ result' = HandlerResult(ToolByName(tool), raised')
          /\ pc' = "done"
          /\ UNCHANGED calls
  /\ UNCHANGED <<config, startup, registry, tool, args, other>>

(* a dokployRequest that turns debugging on once a request has failed *)
Settle_TurnsDebugOn(out) ==
  /\ pc = "awaiting"
  /\ outcome' = out
  /\ raised' = DokployRequestSettle(out)
  /\ console' = console \o ErrorLog(config, raised')
  /\ result' = HandlerResult(ToolByName(tool), raised')
  /\ pc' = "done"
  /\ config' = IF raised'.kind = "throw" THEN [config EXCEPT !.debug = TRUE] ELSE config
  /\ UNCHANGED <<startup, registry, tool, args, calls, other>>

(* a dokployRequest that keeps the last answer in one place for every invocation *)
Settle_SharedAnswer(out) ==
  /\ pc = "awaiting"
  /\ outcome' = out
  /\ raised' = IF other.pc = "done" THEN other.raised ELSE DokployRequestSettle(out)
  /\ console' = console \o ErrorLog(config, raised')
  /\ result' = HandlerResult(ToolByName(tool), raised')
  /\ pc' = "done"
  /\ UNCHANGED <<config, startup, registry, tool, args, calls, other>>

(* a handler that keeps a log request open and never ends *)
Settle_StreamsLogs(out) ==
  /\ pc = "awaiting"
  /\ tool \notin {"get-logs", "get-compose-logs"}
  /\ outcome' = out
  /\ raised' = DokployRequestSettle(out)
  /\ console' = console \o ErrorLog(config, raised')
  /\ result' = HandlerResult(ToolByName(tool), raised')
  /\ pc' = "done"
  /\ UNCHANGED <<config, startup, registry, tool, args, calls, other>>

(* the awaited fetch settles; dokployRequest returns or throws and the handler ends *)
Settle(out) ==
  /\ pc = "awaiting"
  /\ outcome' = out
  /\ raised' = DokployRequestSettle(out)
  /\ console' = console \o ErrorLog(config, raised')
  /\ result' = HandlerResult(ToolByName(tool), raised')
  /\ pc' = "done"
  /\ UNCHANGED <<config, startup, registry, tool, args, calls, other>>

FetchResolves == \E st \in Statuses, text \in Bodies : Settle(Response(st, text))

FetchRejects == Settle(Rejected(NetworkFailure))

(* the result has gone back to the caller; the server takes the next invocation *)
(* a handler that leaves the request it made behind for the next invocation *)
HandlerReturns_KeepsCalls ==
  /\ pc' = "idle"
  /\ tool' = ""
  /\ args' = << >>
  /\ outcome' = NoOutcome
  /\ raised' = NoRaise
  /\ result' = NoResult
  /\ console' = << >>
  /\ UNCHANGED calls

(* the handler has returned: its locals are gone and nothing of the invocation is kept *)
HandlerReturns ==
  /\ pc' = "idle"
  /\ tool' = ""
  /\ args' = << >>
  /\ calls' = << >>
  /\ outcome' = NoOutcome
  /\ raised' = NoRaise
  /\ result' = NoResult
  /\ console' = << >>

NextInvocation ==
  /\ pc \in {"done", "served"}
  /\ HandlerReturns
  /\ UNCHANGED <<config, startup, registry, other>>

Invoke ==
  /\ pc = "idle"
  /\ \E nm \in Range(registry.tools) : \E raw \in RawArguments(ToolByName(nm)) : CallTool(nm, raw)

(* a resource handler that fetches the document from the Dokploy server *)
ReadResource_Fetches(uri) ==
  /\ pc = "idle"
  /\ tool' = uri
  /\ args' = << >>
  /\ calls' = Append(calls, FetchCall(config, "/swagger", "GET", Undef))
  /\ result' = Content(ResourceText(config, uri))
  /\ pc' = "served"
  /\ UNCHANGED <<config, startup, registry, outcome, raised, console, other>>

(* a resource handler: returns its text; no dokployRequest call *)
ReadResource(uri) ==
  /\ pc = "idle"
  /\ tool' = uri
  /\ args' = << >>
  /\ result' = Content(ResourceText(config, uri))
  /\ pc' = "served"
  /\ UNCHANGED <<config, startup, registry, calls, outcome, raised, console, other>>

(* a prompt handler: arguments validated against argsSchema, then interpolated *)
GetPrompt(nm, raw) ==
  /\ pc = "idle"
  /\ tool' = nm
  /\ args' = raw
  /\ LET p == PromptByName(nm)
     IN  result' = IF SchemaAccepts(p, raw)
                     THEN Content(PromptText(nm, SchemaParse(p, raw)))
                     ELSE InvalidPromptArguments(nm)
  /\ pc' = "served"
  /\ UNCHANGED <<config, startup, registry, calls, outcome, raised, console, other>>

Resource == \E r \in Range(registry.resources) : ReadResource(r.uri)

Prompt ==
  /\ pc = "idle"
  /\ \E nm \in Range(registry.prompts) : \E raw \in RawArguments(PromptByName(nm)) : GetPrompt(nm, raw)

Next == Invoke \/ FetchResolves \/ FetchRejects \/ Resource \/ Prompt \/ NextInvocation

Spec == Init /\ [][Next]_vars

(* No fetch the server awaits stays pending for ever. A pending fetch can at any *)
(* time be refused by the network, and a response ends the wait as well, so weak *)
(* fairness of the refusal is the condition that every fetch settles one way or  *)
(* the other: a behaviour in which the response arrives meets it.                *)
SpecLive == Init /\ [][Next]_vars /\ WF_vars(FetchRejects)

----------------------------------------------------------------------------
(* One invocation made a second time: the first is kept in other, the second runs *)
(* with the same tool, arguments and upstream answer.                             *)

Configs == {ConfigSchemaParse(raw, env) : raw \in RawConfigs, env \in Envs}

Snapshot ==
  [config |-> config, pc |-> "done", tool |-> tool, args |-> args, calls |-> calls,
   outcome |-> outcome, raised |-> raised, result |-> result, console |-> console]

(* the first invocation is over; a server built by createServer(cfg) takes the second *)
Replay(cfg) ==
  /\ pc = "done"
  /\ other.pc = "none"
  /\ other' = Snapshot
  /\ config' = cfg
  /\ startup' = CreateServerErrors(cfg)
  /\ HandlerReturns
  /\ UNCHANGED registry

First == other.pc = "none" /\ Invoke

FirstResolves == other.pc = "none" /\ FetchResolves

FirstRejects == other.pc = "none" /\ FetchRejects

Again == pc = "idle" /\ other.pc = "done" /\ CallTool(other.tool, other.args)

SameAnswer == pc = "awaiting" /\ other.pc = "done" /\ Settle(other.outcome)

(* the three credentials a configuration can hold, each paired with another *)
OtherToken(token) ==
  CASE token = "" -> "tok-A"
    [] token = "tok-A" -> "tok-env"
    [] OTHER -> ""

(* the second server differs from the first in apiToken only *)
Rekey ==
  \E cfg \in Configs :
    /\ cfg.apiToken = OtherToken(config.apiToken)
    /\ cfg.dokployUrl = config.dokployUrl
    /\ cfg.debug = config.debug
    /\ Replay(cfg)

NextRekey == First \/ FirstResolves \/ FirstRejects \/ Rekey \/ Again \/ SameAnswer

SpecRekey == Init /\ [][NextRekey]_vars

(* the second server differs from the first in debug only *)
Redebug ==
  \E cfg \in Configs :
    /\ cfg.debug # config.debug
    /\ cfg.dokployUrl = config.dokployUrl
    /\ cfg.apiToken = config.apiToken
    /\ Replay(cfg)

NextDebug == First \/ FirstResolves \/ FirstRejects \/ Redebug \/ Again \/ SameAnswer

SpecDebug == Init /\ [][NextDebug]_vars

(* the same server takes the second invocation *)
Repeat == Replay(config)

NextRepeat == First \/ FirstResolves \/ FirstRejects \/ Repeat \/ Again \/ SameAnswer

SpecRepeat == Init /\ [][NextRepeat]_vars

----------------------------------------------------------------------------
(* Two invocations in flight on one server: the second one lives in other and *)
(* runs the same handlers over the same configuration.                        *)

ConcurrentTools == {"list-projects", "create-project", "delete-project"}

ConcurrentAnswers ==
  {Response(200, "[]"), Response(200, ""), Response(401, "Unauthorized"), Rejected(NetworkFailure)}

(* the transport hands the server a second request while the first may be in flight *)
Accept ==
  /\ other.pc = "none"
  /\ other' = [NoOther EXCEPT !.pc = "idle", !.config = config]
  /\ UNCHANGED <<config, startup, registry, pc, tool, args, calls, outcome, raised, result, console>>

(* handlers that read one configuration kept for the whole process, not their server's own *)
OtherCallTool_ProcessConfig(nm, raw) ==
  /\ other.pc = "idle"
  /\ LET t == ToolByName(nm)
     IN  IF ~SchemaAccepts(t, raw)
         THEN other' = [other EXCEPT !.tool = nm, !.args = raw,
                                     !.result = InvalidArguments(nm), !.pc = "done"]
         ELSE LET data == SchemaParse(t, raw)
                  endpoint == Endpoint(t, data)
                  body == RequestBody(t, data)
              IN  other' = [other EXCEPT
                              !.tool = nm, !.args = raw,
                              !.console = other.console \o RequestLog(config, endpoint, t.method),
                              !.calls = Append(other.calls, FetchCall(config, endpoint, t.method, body)),
                              !.pc = "awaiting"]
  /\ UNCHANGED <<config, startup, registry, pc, tool, args, calls, outcome, raised, result, console>>

(* tools/call for the second invocation, up to the fetch it awaits; its handlers close over *)
(* the configuration their own createServer call was given                             *)
OtherCallTool(nm, raw) ==
  /\ other.pc = "idle"
  /\ LET t == ToolByName(nm)
     IN  IF ~SchemaAccepts(t, raw)
         THEN other' = [other EXCEPT !.tool = nm, !.args = raw,
                                     !.result = InvalidArguments(nm), !.pc = "done"]
         ELSE LET data == SchemaParse(t, raw)
                  endpoint == Endpoint(t, data)
                  body == RequestBody(t, data)
              IN  other' = [other EXCEPT
                              !.tool = nm, !.args = raw,
                              !.console = other.console \o RequestLog(other.config, endpoint, t.method),
                              !.calls = Append(other.calls, FetchCall(other.config, endpoint, t.method, body)),
                              !.pc = "awaiting"]
  /\ UNCHANGED <<config, startup, registry, pc, tool, args, calls, outcome, raised, result, console>>

(* the second invocation's fetch settles *)
OtherSettle(out) ==
  /\ other.pc = "awaiting"
  /\ LET r == DokployRequestSettle(out)
     IN  other' = [other EXCEPT !.outcome = out, !.raised = r,
                                 !.console = other.console \o ErrorLog(other.config, r),
                                 !.result = HandlerResult(ToolByName(other.tool), r),
                                 !.pc = "done"]
  /\ UNCHANGED <<config, startup, registry, pc, tool, args, calls, outcome, raised, result, console>>

(* the second invocation's handler has returned *)
OtherReturns ==
  /\ other.pc = "done"
  /\ other' = [NoOther EXCEPT !.pc = "idle", !.config = other.config]
  /\ UNCHANGED <<config, startup, registry, pc, tool, args, calls, outcome, raised, result, console>>

InvokeOne ==
  /\ pc = "idle"
  /\ \E nm \in ConcurrentTools : \E raw \in RawArguments(ToolByName(nm)) : CallTool(nm, raw)

SettleOne == pc = "awaiting" /\ \E out \in ConcurrentAnswers : Settle(out)

InvokeOther ==
  /\ other.pc = "idle"
  /\ \E nm \in ConcurrentTools : \E raw \in RawArguments(ToolByName(nm)) : OtherCallTool(nm, raw)

SettleOther == other.pc = "awaiting" /\ \E out \in ConcurrentAnswers : OtherSettle(out)

NextConcurrent ==
  \/ Accept
  \/ InvokeOne
  \/ SettleOne
  \/ NextInvocation
  \/ InvokeOther
  \/ SettleOther
  \/ OtherReturns

SpecConcurrent == Init /\ [][NextConcurrent]_vars

----------------------------------------------------------------------------
(* Two servers at once, each built by its own createServer call (hosted mode *)
(* builds one per incoming call); the second one lives in other.             *)

(* createServer({ config: cfg }) builds the second server *)
CreateServer(cfg) ==
  /\ other.pc = "none"
  /\ other' = [NoOther EXCEPT !.pc = "idle", !.config = cfg]
  /\ UNCHANGED <<config, startup, registry, pc, tool, args, calls, outcome, raised, result, console>>

SecondServer == \E cfg \in Configs : CreateServer(cfg)

NextServers ==
  \/ SecondServer
  \/ InvokeOne
  \/ SettleOne
  \/ NextInvocation
  \/ InvokeOther
  \/ SettleOther
  \/ OtherReturns

SpecServers == Init /\ [][NextServers]_vars

----------------------------------------------------------------------------
(* The GET tools that build a query string, called with values that hold the *)
(* characters a query string reserves. A path is kept as its pieces: a piece *)
(* is "?", "&", "=" or a run of other characters.                            *)

QueryTools == {Tools[i].name : i \in {j \in 1..Len(Tools) : Tools[j].qkind # "none"}}

QueryChoices(f) ==
  (IF f.presence = "required" THEN {} ELSE {Undef}) \cup
  (IF f.type = "number" THEN {Num(5)} ELSE {Str("demo"), Str("a&b"), Str("a b"), Str("")})

QueryArguments(t) ==
  {raw \in [FieldNames(t) -> UNION {QueryChoices(FieldOf(t, nm)) : nm \in FieldNames(t)}] :
     \A nm \in FieldNames(t) : raw[nm] \in QueryChoices(FieldOf(t, nm))}

(* the pieces of a value a template literal writes into the path as it is *)
Tokens(x) ==
  CASE x = "" -> << >>
    [] x = "a&b" -> << "a", "&", "b" >>
    [] OTHER -> << x >>

(* the pieces of a value URLSearchParams writes: what it reserves is escaped *)
EncodedTokens(x) == IF x = "" THEN << >> ELSE << FormEncode(x) >>

RECURSIVE Parameters(_, _, _, _)
Parameters(keys, data, encoded, i) ==
  IF i > Len(keys) THEN << >>
  ELSE (IF i > 1 THEN << "&" >> ELSE << >>)
         \o << keys[i], "=" >>
         \o (IF encoded THEN EncodedTokens(data[keys[i]].s) ELSE Tokens(TemplateString(data[keys[i]])))
         \o Parameters(keys, data, encoded, i + 1)

(* the endpoint argument the handler passes to dokployRequest, in pieces *)
EndpointTokens(t, data) ==
  CASE t.qkind = "template" -> << t.path, "?" >> \o Parameters(t.query, data, FALSE, 1)
    [] t.qkind = "searchParams" ->
         LET given == SelectSeq(t.query, LAMBDA q : Truthy(data[q]))
         IN  IF given = << >> THEN << t.path >>
             ELSE << t.path, "?" >> \o Parameters(given, data, TRUE, 1)
    [] OTHER -> << t.path >>

InvokeQuery ==
  /\ pc = "idle"
  /\ \E nm \in QueryTools : \E raw \in QueryArguments(ToolByName(nm)) : CallTool(nm, raw)

NextQuery == InvokeQuery \/ FetchResolves \/ FetchRejects \/ NextInvocation

SpecQuery == Init /\ [][NextQuery]_vars

----------------------------------------------------------------------------
(* dokployRequest on its own, called with any endpoint, method and body *)

RequestEndpoints == {"/project.all", "/project.create", "/application.one?applicationId=demo"}

(* the method argument; left out, the parameter default applies *)
RequestMethods == {Undef, Str("GET"), Str("POST")}

RequestBodies == {Undef, Null, Obj(<< >>), Obj(<< KV("name", Str("demo")) >>)}

MethodOrDefault(m) == IF m = Undef THEN "GET" ELSE m.s

(* fetch refuses to build a GET request that has a body, and rejects *)
FetchRefuses(call) == call.method = "GET" /\ call.hasBody

BodyRefused == [name |-> "TypeError", message |-> "Request with GET/HEAD method cannot have body."]

(* dokployRequest(config, endpoint, method, body), up to the fetch it awaits *)
Request(endpoint, m, body) ==
  /\ pc = "idle"
  /\ tool' = "dokployRequest"
  /\ args' = [endpoint |-> Str(endpoint), method |-> m, body |-> body]
  /\ console' = console \o RequestLog(config, endpoint, MethodOrDefault(m))
  /\ calls' = Append(calls, FetchCall(config, endpoint, MethodOrDefault(m), body))
  /\ pc' = "awaiting"
  /\ UNCHANGED <<config, startup, registry, outcome, raised, result, other>>

(* the awaited fetch settles; dokployRequest returns or throws to its caller *)
RequestSettle(out) ==
  /\ pc = "awaiting"
  /\ outcome' = out
  /\ raised' = DokployRequestSettle(out)
  /\ console' = console \o ErrorLog(config, raised')
  /\ pc' = "done"
  /\ UNCHANGED <<config, startup, registry, tool, args, calls, result, other>>

RequestCalled ==
  /\ pc = "idle"
  /\ \E endpoint \in RequestEndpoints, m \in RequestMethods, body \in RequestBodies :
       Request(endpoint, m, body)

RequestResolves ==
  /\ pc = "awaiting"
  /\ ~FetchRefuses(calls[1])
  /\ \E st \in Statuses, text \in Bodies : RequestSettle(Response(st, text))

RequestRejects ==
  /\ pc = "awaiting"
  /\ RequestSettle(Rejected(IF FetchRefuses(calls[1]) THEN BodyRefused ELSE NetworkFailure))

NextRequest == RequestCalled \/ RequestResolves \/ RequestRejects \/ NextInvocation

SpecRequest == Init /\ [][NextRequest]_vars

(* A resource read, a prompt or a direct dokployRequest made a second time on a *)
(* server whose configuration differs in apiToken only.                         *)

FirstResource == other.pc = "none" /\ Resource

FirstPrompt == other.pc = "none" /\ Prompt

FirstRequest == other.pc = "none" /\ RequestCalled

FirstRequestResolves == other.pc = "none" /\ RequestResolves

FirstRequestRejects == other.pc = "none" /\ RequestRejects

RekeyOutputs ==
  /\ pc \in {"done", "served"}
  /\ other.pc = "none"
  /\ \E cfg \in Configs :
       /\ cfg.apiToken = OtherToken(config.apiToken)
       /\ cfg.dokployUrl = config.dokployUrl
       /\ cfg.debug = config.debug
       /\ config' = cfg
       /\ startup' = CreateServerErrors(cfg)
  /\ other' = [Snapshot EXCEPT !.pc = pc]
  /\ HandlerReturns
  /\ UNCHANGED registry

ResourceAgain ==
  /\ pc = "idle"
  /\ other.pc = "served"
  /\ other.tool \in ResourceUris
  /\ ReadResource(other.tool)

PromptAgain ==
  /\ pc = "idle"
  /\ other.pc = "served"
  /\ other.tool \in PromptNames
  /\ GetPrompt(other.tool, other.args)

RequestAgain ==
  /\ pc = "idle"
  /\ other.pc = "done"
  /\ Request(other.args.endpoint.s, other.args.method, other.args.body)

RequestSameAnswer == pc = "awaiting" /\ other.pc = "done" /\ RequestSettle(other.outcome)

NextOutputs ==
  \/ FirstResource \/ FirstPrompt \/ FirstRequest \/ FirstRequestResolves \/ FirstRequestRejects
  \/ RekeyOutputs
  \/ ResourceAgain \/ PromptAgain \/ RequestAgain \/ RequestSameAnswer

SpecOutputs == Init /\ [][NextOutputs]_vars

----------------------------------------------------------------------------
(* dokployRequest statement by statement: the log, the fetch, the try block, the *)
(* catch block's log and its throw are steps of their own.                       *)

(* dokployRequest(config, endpoint, method, body) is entered *)
Enter(endpoint, m, body) ==
  /\ pc = "idle"
  /\ tool' = "dokployRequest"
  /\ args' = [endpoint |-> Str(endpoint), method |-> m, body |-> body]
  /\ pc' = "entered"
  /\ UNCHANGED <<config, startup, registry, calls, outcome, raised, result, console, other>>

Entered ==
  \E endpoint \in RequestEndpoints, m \in RequestMethods, body \in RequestBodies :
    Enter(endpoint, m, body)

(* if (config.debug) console.log(...) *)
LogRequest ==
  /\ pc = "entered"
  /\ console' = console \o RequestLog(config, args["endpoint"].s, MethodOrDefault(args["method"]))
  /\ pc' = "logged"
  /\ UNCHANGED <<config, startup, registry, tool, args, calls, outcome, raised, result, other>>

(* a fetch issued ahead of the log statement, which is then never reached *)
IssueFetch_AheadOfLog ==
  /\ pc = "entered"
  /\ calls' = Append(calls, FetchCall(config, args["endpoint"].s,
                                      MethodOrDefault(args["method"]), args["body"]))
  /\ pc' = "awaiting"
  /\ UNCHANGED <<config, startup, registry, tool, args, outcome, raised, result, console, other>>

(* fetch(url, {method, headers, body}) is called *)
IssueFetch ==
  /\ pc = "logged"
  /\ calls' = Append(calls, FetchCall(config, args["endpoint"].s,
                                      MethodOrDefault(args["method"]), args["body"]))
  /\ pc' = "awaiting"
  /\ UNCHANGED <<config, startup, registry, tool, args, outcome, raised, result, console, other>>

(* the awaited fetch resolves with a response or rejects *)
FetchSettles(out) ==
  /\ pc = "awaiting"
  /\ outcome' = out
  /\ pc' = "settled"
  /\ UNCHANGED <<config, startup, registry, tool, args, calls, raised, result, console, other>>

Answered ==
  /\ pc = "awaiting"
  /\ ~FetchRefuses(calls[1])
  /\ \E st \in Statuses, text \in Bodies : FetchSettles(Response(st, text))

Unanswered ==
  /\ pc = "awaiting"
  /\ FetchSettles(Rejected(IF FetchRefuses(calls[1]) THEN BodyRefused ELSE NetworkFailure))

(* the rest of the try block: it returns the data, or what it throws is caught *)
TryEnds ==
  /\ pc = "settled"
  /\ LET r == TryBlock(outcome)
     IN  IF r.kind = "return"
         THEN raised' = r /\ pc' = "done"
         ELSE raised' = [kind |-> "caught", value |-> Undef, error |-> r.error] /\ pc' = "caught"
  /\ UNCHANGED <<config, startup, registry, tool, args, calls, outcome, result, console, other>>

(* if (config.debug) console.error(...) *)
LogError ==
  /\ pc = "caught"
  /\ console' = console \o ErrorLog(config, Throw(raised.error))
  /\ pc' = "errorLogged"
  /\ UNCHANGED <<config, startup, registry, tool, args, calls, outcome, raised, result, other>>

(* throw error: the error reaches the caller *)
Rethrow ==
  /\ pc = "errorLogged"
  /\ raised' = CatchBlock(raised.error)
  /\ pc' = "done"
  /\ UNCHANGED <<config, startup, registry, tool, args, calls, outcome, result, console, other>>

NextSteps ==
  \/ Entered
  \/ LogRequest
  \/ IssueFetch
  \/ Answered
  \/ Unanswered
  \/ TryEnds
  \/ LogError
  \/ Rethrow
  \/ NextInvocation

SpecSteps == Init /\ [][NextSteps]_vars

----------------------------------------------------------------------------
(* Properties *)

Running == pc \in {"awaiting", "done"}

Failed == pc = "done" /\ outcome.kind = "response" /\ outcome.status >= 400

HeaderValues(call, hname) ==
  {call.headers[j].value : j \in {k \in 1..Len(call.headers) : call.headers[k].name = hname}}

HeaderCount(call, hname) ==
  Cardinality({k \in 1..Len(call.headers) : call.headers[k].name = hname})

PrimitiveOf(ftype) ==
  CASE ftype = "number" -> "number"
    [] ftype = "boolean" -> "boolean"
    [] ftype = "record" -> "object"
    [] OTHER -> "string"

(* a required argument is missing, an argument has the wrong primitive type, *)
(* or an argument is no member of its enum                                   *)
Violates(t, raw) ==
  \E i \in 1..Len(t.schema) :
    LET f == t.schema[i]
        v == raw[f.name]
    IN \/ f.presence = "required" /\ v.t = "undefined"
       \/ v.t # "undefined" /\ v.t # PrimitiveOf(f.type)
       \/ f.type = "enum" /\ v.t = "string" /\ v.s \notin f.enum

(* C1: an invocation whose arguments violate the tool's input schema is rejected *)
(* before the handler runs: it makes no outbound call.                           *)
C1_InvalidArgumentsMakeNoCall ==
  (Running /\ Violates(ToolByName(tool), args))
    => (pc = "done" /\ Len(calls) = 0 /\ raised.kind = "none" /\ result.kind = "error")

C1_Witness ==
  /\ pc = "done"
  /\ tool = "create-database"
  /\ args["type"] = Str("demo")
  /\ Len(calls) = 0
  /\ result.kind = "error"

(* C2: a non-success status fails the invocation with an error that carries the *)
(* status code and the body text of the response, and no success payload.       *)
C2_UpstreamErrorCarriesStatusAndText ==
  Failed =>
    /\ result.kind = "error"
    /\ result.error.name = "Error"
    /\ result.error.message
         = "Dokploy API error (" \o ToString(outcome.status) \o "): " \o outcome.body
    /\ result.text = ""

C2_Witness ==
  /\ pc = "done"
  /\ tool = "list-projects"
  /\ outcome = Response(401, "Unauthorized")
  /\ result.error.message = "Dokploy API error (401): Unauthorized"

(* C3: a call that gets no response fails the invocation with the network error, *)
(* whose kind differs from the kind of the error raised for a non-success status. *)
C3_TransportErrorIsNotUpstreamError ==
  /\ (pc = "done" /\ outcome.kind = "rejected")
       => (result.kind = "error" /\ result.error = outcome.error /\ result.error.name # "Error")
  /\ Failed => (result.kind = "error" /\ result.error.name = "Error")

C3_Witness ==
  /\ pc = "done"
  /\ tool = "deploy-application"
  /\ outcome.kind = "rejected"
  /\ result.error.name = "TypeError"

(* C4: for every success status dokployRequest returns a value: the parsed JSON *)
(* when the body is JSON, the raw text when it is not.                          *)
C4_SuccessStatusReturnsValue ==
  (pc = "done" /\ outcome.kind = "response" /\ outcome.status >= 200 /\ outcome.status <= 299)
    => /\ raised.kind = "return"
       /\ \/ \E v \in JsonSamples : JsonStringify(v) = outcome.body /\ raised.value = v
          \/ (\A v \in JsonSamples : JsonStringify(v) # outcome.body) /\ raised.value = Str(outcome.body)

(* C5: one invocation of dokployRequest makes exactly one outbound call, also *)
(* after a failure, and the failure is raised to the handler.                 *)
C5_ExactlyOneCall ==
  /\ pc = "awaiting" => Len(calls) = 1
  /\ (pc = "done" /\ outcome.kind # "none") => Len(calls) = 1
  /\ (pc = "done" /\ outcome.kind = "rejected") => raised.kind = "throw"
  /\ Failed => raised.kind = "throw"

C5_Witness ==
  /\ pc = "done"
  /\ outcome = Response(500, "Unauthorized")
  /\ raised.kind = "throw"
  /\ Len(calls) = 1

DemoProject == tool = "create-project" /\ args = [name |-> Str("demo"), description |-> Undef]

(* C6: create-project {name: "demo"} issues one POST to /project.create with body *)
(* {name: "demo", description: ""}; on success the text holds the record the      *)
(* upstream echoed; on 401 it fails with the 401 error and no record text.        *)
C6_CreateProjectEndToEnd ==
  (Running /\ DemoProject) =>
    /\ Len(calls) = 1
    /\ calls[1].method = "POST"
    /\ calls[1].url = config.dokployUrl \o "/api/project.create"
    /\ calls[1].hasBody
    /\ calls[1].body = "{\"name\":\"demo\",\"description\":\"\"}"
    /\ (pc = "done" /\ outcome = Response(200, "{\"projectId\":\"p1\",\"name\":\"demo\"}"))
         => /\ result.kind = "content"
            /\ result.text = "Project created successfully!\n\n{\n  \"projectId\": \"p1\",\n  \"name\": \"demo\"\n}"
    /\ (pc = "done" /\ outcome.kind = "response" /\ outcome.status = 401)
         => /\ result.kind = "error"
            /\ result.error.message = "Dokploy API error (401): " \o outcome.body
            /\ result.text = ""

C6_Witness ==
  /\ DemoProject
  /\ pc = "done"
  /\ outcome = Response(200, "{\"projectId\":\"p1\",\"name\":\"demo\"}")
  /\ result.kind = "content"

(* C7: a success payload is produced only after a success status; an error raised *)
(* by dokployRequest reaches the dispatcher as it was raised.                      *)
C7_NoSuccessAfterFailure ==
  pc = "done" =>
    /\ result.kind = "content"
         => (outcome.kind = "response" /\ outcome.status >= 200 /\ outcome.status <= 299)
    /\ raised.kind = "throw" => result = Failure(raised.error)
    /\ outcome.kind = "rejected" => result = Failure(outcome.error)

C7_Witness ==
  /\ pc = "done"
  /\ tool = "stop-application"
  /\ outcome.kind = "response"
  /\ outcome.status = 500
  /\ result.kind = "error"

(* C8: every outbound request carries the configured credential in exactly one of *)
(* the API-key header and the bearer Authorization header.                        *)
C8_OneAuthenticationHeader ==
  \A i \in 1..Len(calls) :
    /\ HeaderCount(calls[i], "x-api-key") + HeaderCount(calls[i], "Authorization") = 1
    /\ HeaderValues(calls[i], "x-api-key") \subseteq {config.apiToken}
    /\ HeaderValues(calls[i], "Authorization") \subseteq {"Bearer " \o config.apiToken}

C8_Witness ==
  /\ pc = "awaiting"
  /\ config.apiToken = "tok-A"
  /\ Len(calls) = 1
  /\ HeaderValues(calls[1], "x-api-key") = {"tok-A"}

C10_NoEmptyCredential ==
  \A i \in 1..Len(calls) :
    /\ "" \notin HeaderValues(calls[i], "x-api-key")
    /\ "Bearer " \notin HeaderValues(calls[i], "Authorization")
    /\ HeaderCount(calls[i], "x-api-key") + HeaderCount(calls[i], "Authorization") >= 1

CurrentTool == ToolByName(tool)

(* C12: the URL of every outbound call is the configured base URL, then "/api", *)
(* then the path the handler passed, and nothing else.                          *)
C12_UrlIsBaseApiPath ==
  \A i \in 1..Len(calls) :
    /\ calls[i].url
         = config.dokployUrl \o "/api" \o Endpoint(CurrentTool, SchemaParse(CurrentTool, args))
    /\ tool = "list-projects"
         => calls[i].url \in {"https://dok.bish.one/api/project.all", "http://localhost:3000/api/project.all"}
    /\ (tool = "get-server-status" /\ args["serverId"] = Str("demo"))
         => calls[i].url = config.dokployUrl \o "/api/server.status?serverId=demo"

C12_Witness ==
  /\ pc = "awaiting"
  /\ tool = "get-logs"
  /\ config.dokployUrl = "http://localhost:3000"
  /\ calls[1].url = "http://localhost:3000/api/application.logs?applicationId=demo&lines=100"

BodyKeys(t) == {t.body[i].k : i \in 1..Len(t.body)}

QueryKeys(t) == {t.query[i] : i \in 1..Len(t.query)}

(* C14: every outbound request of a tool is a GET without body whose arguments are *)
(* query parameters, or a POST whose arguments are the members of a JSON body.     *)
C14_GetWithQueryOrPostWithBody ==
  \A i \in 1..Len(calls) :
    /\ calls[i].method \in {"GET", "POST"}
    /\ calls[i].method = CurrentTool.method
    /\ calls[i].method = "GET"
         => /\ ~calls[i].hasBody
            /\ calls[i].body = ""
            /\ QueryKeys(CurrentTool) = FieldNames(CurrentTool)
    /\ calls[i].method = "POST"
         => /\ calls[i].hasBody
            /\ calls[i].url = config.dokployUrl \o "/api" \o CurrentTool.path
            /\ BodyKeys(CurrentTool) = FieldNames(CurrentTool)
            /\ calls[i].body
                 = JsonStringify(Obj([j \in 1..Len(CurrentTool.body) |->
                                        KV(CurrentTool.body[j].k,
                                           SchemaParse(CurrentTool, args)[CurrentTool.body[j].k])]))
                 \/ \E j \in 1..Len(CurrentTool.body) : CurrentTool.body[j].kind = "or"

C14_Witness ==
  /\ pc = "awaiting"
  /\ tool = "update-settings"
  /\ args["enableStats"] = Bool(TRUE)
  /\ calls[1].method = "POST"
  /\ calls[1].body = "{\"enableStats\":true}"

(* the endpoints the dokploy://api-reference resource and the README list *)
DocumentedEndpoints ==
  { <<"list-projects", "GET", "/project.all">>,
    <<"create-project", "POST", "/project.create">>,
    <<"delete-project", "POST", "/project.remove">>,
    <<"list-applications", "GET", "/application.all">>,
    <<"create-application", "POST", "/application.create">>,
    <<"deploy-application", "POST", "/application.deploy">>,
    <<"start-application", "POST", "/application.start">>,
    <<"stop-application", "POST", "/application.stop">>,
    <<"restart-application", "POST", "/application.restart">>,
    <<"delete-application", "POST", "/application.remove">>,
    <<"get-logs", "GET", "/application.logs">>,
    <<"get-application-status", "GET", "/application.status">>,
    <<"update-env-vars", "POST", "/application.updateEnv">>,
    <<"list-databases", "GET", "/database.all">>,
    <<"create-database", "POST", "/database.create">>,
    <<"list-domains", "GET", "/domain.all">>,
    <<"add-domain", "POST", "/domain.create">>,
    <<"list-backups", "GET", "/backup.all">>,
    <<"create-backup", "POST", "/backup.create">>,
    <<"restore-backup", "POST", "/backup.restore">> }

(* the query strings the drawn arguments can make *)
QueryStrings ==
  LET one == {"?" \o k \o "=" \o v : k \in {"projectId", "applicationId", "databaseId"}, v \in {"demo", ""}}
  IN {""} \cup one \cup {q \o "&lines=" \o n : q \in one, n \in {"100", "5", "7"}}

(* C15: the method and the path of each documented tool's call are those of the *)
(* API reference.                                                                *)
C15_DocumentedEndpoint ==
  \A d \in DocumentedEndpoints :
    (tool = d[1] /\ Len(calls) >= 1)
      => /\ calls[1].method = d[2]
         /\ \E q \in QueryStrings : calls[1].url = config.dokployUrl \o "/api" \o d[3] \o q
         /\ d[2] = "POST" => calls[1].url = config.dokployUrl \o "/api" \o d[3]

C15_Witness ==
  /\ pc = "awaiting"
  /\ tool = "delete-application"
  /\ calls[1].method = "POST"
  /\ calls[1].url = config.dokployUrl \o "/api/application.remove"

OmitsChild ==
  /\ tool \in {"list-deployments", "cancel-deployment"}
  /\ args["applicationId"] = Undef
  /\ args["composeId"] = Undef

DependentUrls == {config.dokployUrl \o "/api/deployment.all", config.dokployUrl \o "/api/deployment.cancel"}

(* C16: with the child identifier left out the handler fetches the parent record *)
(* before the dependent call, and, the parent holding no default child, fails    *)
(* with a not-found error and issues no dependent call.                          *)
C16_DefaultChildResolvedFirst ==
  (Running /\ OmitsChild) =>
    /\ Len(calls) >= 1 => calls[1].url \notin DependentUrls
    /\ pc = "done"
         => /\ \A i \in 1..Len(calls) : calls[i].url \notin DependentUrls
            /\ result.kind = "error"
            /\ result.error.name = "NotFoundError"

Member(obj, key) == obj.items[CHOOSE i \in 1..Len(obj.items) : obj.items[i].k = key].v

Tagged(child, grouping) ==
  Obj(child.items \o << KV("environmentId", Member(grouping, "environmentId")),
                        KV("environmentName", Member(grouping, "name")) >>)

RECURSIVE FlattenedFrom(_, _)
FlattenedFrom(groupings, i) ==
  IF i > Len(groupings) THEN << >>
  ELSE LET g == groupings[i].v
           children == Member(g, "applications").items
       IN [j \in 1..Len(children) |-> Tagged(children[j].v, g)] \o FlattenedFrom(groupings, i + 1)

(* every child of every grouping, in grouping-then-child order, tagged with its grouping *)
Flattened(parent) == Arr(FlattenedFrom(Member(parent, "environments").items, 1))

(* C17: a listing over children nested in the groupings of a parent returns one *)
(* combined sequence, each child once, in grouping-then-child order, tagged with *)
(* its grouping (sizes 2, 0, 1 give 3 entries).                                  *)
C17_ListingIsFlattened ==
  (pc = "done" /\ tool \in {"list-applications", "list-databases"}
     /\ outcome = Response(200, JsonStringify(GroupedProject)))
    => /\ result.kind = "content"
       /\ result.text = JsonPretty(Flattened(GroupedProject), 0)

(* C20: no handler and no call of dokployRequest changes the configuration or the *)
(* registered operations: across every step of every tool, resource and prompt   *)
(* invocation, successful or failed, the configuration and the registry stay     *)
(* what createServer left.                                                       *)
C20_ConfigurationAndRegistryFrozen ==
  [][/\ config' = config
     /\ registry' = registry
     /\ registry = Registered]_vars

C20_Witness ==
  /\ pc = "done"
  /\ tool = "delete-project"
  /\ raised.kind = "throw"
  /\ config.debug
  /\ Len(console) = 2
  /\ registry = Registered

Replayed == pc = "done" /\ other.pc = "done"

(* C11: no result or error exposes the credential: under two configurations that  *)
(* differ in apiToken only, the same invocation with the same upstream behaviour  *)
(* yields the same result payload or the same error name and text.                *)
C11_ResultIndependentOfToken ==
  Replayed =>
    /\ config.apiToken # other.config.apiToken
    /\ result = other.result
    /\ raised = other.raised

C11_Witness ==
  /\ Replayed
  /\ tool = "delete-project"
  /\ other.config.apiToken = "tok-A"
  /\ config.apiToken = "tok-env"
  /\ outcome = Response(401, "Unauthorized")
  /\ result = Failure([name |-> "Error", message |-> "Dokploy API error (401): Unauthorized"])
  /\ other.result = result

ListTools ==
  { "list-projects", "list-applications", "list-databases", "list-composes",
    "list-git-providers", "list-servers", "list-users", "list-certificates",
    "list-notifications", "list-ssh-keys", "list-domains", "list-backups",
    "list-deployments", "list-registries", "list-redirects", "list-schedules",
    "list-rollbacks", "list-volume-backups", "list-mounts", "list-ports" }

OwnRequest(nm, raw) ==
  LET t == ToolByName(nm)
      data == SchemaParse(t, raw)
  IN  FetchCall(config, Endpoint(t, data), t.method, RequestBody(t, data))

(* what one invocation holds is what its own arguments and its own answer make *)
OwnOnly(inv) ==
  /\ inv.pc \in {"awaiting", "done"}
       => /\ Len(inv.calls) <= 1
          /\ Len(inv.calls) = 1 => inv.calls[1] = OwnRequest(inv.tool, inv.args)
  /\ (inv.pc = "done" /\ Len(inv.calls) = 1)
       => /\ inv.raised = DokployRequestSettle(inv.outcome)
          /\ inv.result = HandlerResult(ToolByName(inv.tool), inv.raised)
          /\ inv.outcome = Response(401, "Unauthorized")
               => inv.result
                    = Failure([name |-> "Error", message |-> "Dokploy API error (401): Unauthorized"])
          /\ (inv.outcome = Response(200, "[]") /\ inv.tool = "list-projects")
               => inv.result = Content("[]")
  /\ (inv.tool = "list-projects" /\ Len(inv.calls) = 1)
       => inv.calls[1].url = config.dokployUrl \o "/api/project.all"
  /\ (inv.tool = "delete-project" /\ Len(inv.calls) = 1 /\ inv.args["projectId"] = Str("demo"))
       => inv.calls[1].body = "{\"projectId\":\"demo\"}"

(* C19: concurrent invocations do not interfere: in every interleaving each      *)
(* invocation's request is made of its own arguments and the configuration, and  *)
(* its result or error of the upstream's answer to its own request.              *)
C19_NoInterference ==
  /\ OwnOnly([Snapshot EXCEPT !.pc = pc])
  /\ other.pc # "none" => OwnOnly(other)

C19_Witness ==
  /\ pc = "done"
  /\ other.pc = "done"
  /\ tool = "list-projects"
  /\ other.tool = "delete-project"
  /\ outcome = Response(200, "[]")
  /\ other.outcome = Response(401, "Unauthorized")
  /\ result = Content("[]")
  /\ other.result.kind = "error"

(* as many different entries as entries *)
NoDuplicate(seq) == Cardinality(Range(seq)) = Len(seq)

(* C21: createServer registers every operation name once: no two tools share a  *)
(* name, no two resources a name or a URI, no two prompts a name, so that a name *)
(* the dispatcher looks up identifies one handler.                              *)
C21_NamesRegisteredOnce ==
  /\ NoDuplicate(registry.tools)
  /\ NoDuplicate([i \in 1..Len(registry.resources) |-> registry.resources[i].name])
  /\ NoDuplicate([i \in 1..Len(registry.resources) |-> registry.resources[i].uri])
  /\ NoDuplicate(registry.prompts)
  /\ Len(registry.tools) = 63
  /\ Len(registry.resources) = 3
  /\ Len(registry.prompts) = 3
  /\ pc \in {"awaiting", "done"}
       => Cardinality({i \in 1..Len(registry.tools) : registry.tools[i] = tool}) = 1

C21_Witness ==
  /\ pc = "awaiting"
  /\ tool = "list-projects"
  /\ Cardinality({i \in 1..Len(registry.tools) : registry.tools[i] = "list-projects"}) = 1
  /\ Cardinality(Range(registry.tools)) = 63

(* C22: debug mode is observability only: with the same arguments and the same *)
(* upstream behaviour, a run with debug on and a run with debug off issue the   *)
(* same outbound request and end in the same returned value or raised error.    *)
C22_DebugChangesNoOutcome ==
  Replayed =>
    /\ config.debug # other.config.debug
    /\ calls = other.calls
    /\ raised = other.raised
    /\ result = other.result

C22_Witness ==
  /\ Replayed
  /\ config.debug
  /\ ~other.config.debug
  /\ tool = "create-project"
  /\ outcome = Response(500, "Unauthorized")
  /\ Len(console) = 2
  /\ other.console = << >>
  /\ Len(calls) = 1
  /\ calls = other.calls
  /\ raised.kind = "throw"
  /\ raised = other.raised

(* C23: with debug on, the log entry with the method and the full URL is written *)
(* before the outbound call is issued, and on a failure the error entry is       *)
(* written before the error reaches the caller; with debug off dokployRequest    *)
(* writes no entry at all.                                                       *)
C23_LogBeforeCallAndBeforeRaise ==
  /\ ~config.debug => console = << >>
  /\ (config.debug /\ pc = "logged") => (Len(console) = 1 /\ Len(calls) = 0)
  /\ (config.debug /\ Len(calls) >= 1)
       => /\ Len(console) >= 1
          /\ console[1]
               = LogEntry("log", "[Dokploy API] " \o calls[1].method \o " " \o calls[1].url, NoError)
  /\ (config.debug /\ pc = "errorLogged") => raised.kind = "caught"
  /\ (config.debug /\ raised.kind = "throw")
       => /\ Len(console) = 2
          /\ console[2] = LogEntry("error", "[Dokploy API Error]", raised.error)
  /\ (config.debug /\ raised.kind = "return") => Len(console) = 1

C23_Witness ==
  /\ config.debug
  /\ pc = "errorLogged"
  /\ raised.kind = "caught"
  /\ outcome = Response(401, "Unauthorized")
  /\ Len(calls) = 1
  /\ Len(console) = 2
  /\ console[1].text = "[Dokploy API] POST http://localhost:3000/api/project.create"
  /\ console[2].error.message = "Dokploy API error (401): Unauthorized"

(* a configuration that keeps the base URL and nothing else *)
BaseUrlOnly == [dokployUrl |-> config.dokployUrl, apiToken |-> "", debug |-> FALSE]

(* C24: reading a resource or rendering a prompt issues no outbound call, and  *)
(* its output is made of its own arguments and the configured base URL alone.  *)
C24_StaticContentMakesNoCall ==
  pc = "served" =>
    /\ calls = << >>
    /\ outcome = NoOutcome
    /\ raised = NoRaise
    /\ console = << >>
    /\ tool \in ResourceUris => result = Content(ResourceText(BaseUrlOnly, tool))
    /\ (tool \in PromptNames /\ SchemaAccepts(PromptByName(tool), args))
         => result = Content(PromptText(tool, SchemaParse(PromptByName(tool), args)))
    /\ (tool = "troubleshoot" /\ args["applicationId"] = Str("demo"))
         => result.text
              = "My application (ID: demo) is having issues. Please help me troubleshoot by:\n"
                  \o "1. Checking the application status\n"
                  \o "2. Reviewing recent logs\n"
                  \o "3. Suggesting potential fixes\n\n"
                  \o "Start the diagnostic process."

C24_Witness ==
  /\ pc = "served"
  /\ tool = "dokploy://api-reference"
  /\ config.dokployUrl = "http://localhost:3000"
  /\ config.apiToken = "tok-A"
  /\ calls = << >>
  /\ result = Content(ResourceText(BaseUrlOnly, "dokploy://api-reference"))

(* the paths a tool can ask for: its endpoint, bare or followed by a query made of *)
(* some of its parameters, in their declared order                               *)
PathsOf(t, data) ==
  {t.path} \cup
  { t.path \o "?" \o Join([i \in 1..Len(ks) |-> ks[i] \o "=" \o TemplateString(data[ks[i]])], "&") :
      ks \in {SelectSeq(t.query, LAMBDA q : q \in S) : S \in (SUBSET Range(t.query)) \ {{}}} }

(* C25: every tool handler issues exactly one dokployRequest call per validated *)
(* invocation, with the method and the endpoint name its tool fixes: never zero, *)
(* never more than one.                                                          *)
C25_OneCallPerValidatedInvocation ==
  (Running /\ SchemaAccepts(CurrentTool, args)) =>
    /\ Len(calls) = 1
    /\ calls[1].method = CurrentTool.method
    /\ \E path \in PathsOf(CurrentTool, SchemaParse(CurrentTool, args)) :
         calls[1].url = config.dokployUrl \o "/api" \o path
    /\ pc = "done" => (outcome.kind # "none" /\ result.kind \in {"content", "error"})

C25_Witness ==
  /\ pc = "done"
  /\ tool = "delete-application"
  /\ SchemaAccepts(CurrentTool, args)
  /\ Len(calls) = 1
  /\ calls[1].method = "POST"
  /\ calls[1].url = config.dokployUrl \o "/api/application.remove"
  /\ outcome = Response(500, "")
  /\ result.kind = "error"

(* every request in calls goes to the base URL of cfg and carries the key of cfg *)
CarriesOnly(cfg, requests) ==
  \A i \in 1..Len(requests) :
    /\ requests[i].url
         \in {cfg.dokployUrl \o "/api" \o p : p \in {"/project.all", "/project.create", "/project.remove"}}
    /\ HeaderValues(requests[i], "x-api-key") = {cfg.apiToken}

(* C26: server instances are isolated: with two servers of different           *)
(* configurations active at once, every request issued through a server carries *)
(* that server's own dokployUrl and apiToken under any interleaving.            *)
C26_ServersIsolated ==
  /\ CarriesOnly(config, calls)
  /\ other.pc # "none" => CarriesOnly(other.config, other.calls)

C26_Witness ==
  /\ pc = "awaiting"
  /\ other.pc = "awaiting"
  /\ config.dokployUrl = "https://dok.bish.one"
  /\ other.config.dokployUrl = "http://localhost:3000"
  /\ config.apiToken = "tok-env"
  /\ other.config.apiToken = "tok-A"
  /\ calls[1].url = "https://dok.bish.one/api/project.all"
  /\ other.calls[1].url = "http://localhost:3000/api/project.all"
  /\ HeaderValues(calls[1], "x-api-key") = {"tok-env"}
  /\ HeaderValues(other.calls[1], "x-api-key") = {"tok-A"}

(* the pieces of seq up to the first sep, and those after it *)
Before(seq, sep) ==
  IF \E i \in 1..Len(seq) : seq[i] = sep
  THEN SubSeq(seq, 1, (CHOOSE i \in 1..Len(seq) : seq[i] = sep /\ \A j \in 1..(i - 1) : seq[j] # sep) - 1)
  ELSE seq

After(seq, sep) ==
  IF \E i \in 1..Len(seq) : seq[i] = sep
  THEN SubSeq(seq, (CHOOSE i \in 1..Len(seq) : seq[i] = sep /\ \A j \in 1..(i - 1) : seq[j] # sep) + 1,
              Len(seq))
  ELSE << >>

(* percent-decoding, "+" read as a blank *)
Decode(x) ==
  CASE x = "a+b" -> "a b"
    [] x = "a%26b" -> "a&b"
    [] OTHER -> x

RECURSIVE Pairs(_)
Pairs(seq) ==
  IF seq = << >> THEN << >>
  ELSE LET pair == Before(seq, "&")
           entry == IF pair = << >> THEN << >>
                    ELSE << [k |-> Decode(Join(Before(pair, "="), "")),
                             v |-> Decode(Join(After(pair, "="), ""))] >>
       IN  entry \o Pairs(After(seq, "&"))

(* the parameters a server reads from the query string of a path *)
ParseQuery(tokens) == Pairs(After(tokens, "?"))

(* the arguments the caller's invocation holds, defaults filled in *)
Supplied(t, data) ==
  LET given == SelectSeq(t.query, LAMBDA q : data[q] # Undef)
  IN  [i \in 1..Len(given) |-> [k |-> given[i], v |-> TemplateString(data[given[i]])]]

QueryCall ==
  /\ Len(calls) = 1
  /\ tool \in QueryTools
  /\ calls[1].url
       = config.dokployUrl \o "/api"
           \o Join(EndpointTokens(CurrentTool, SchemaParse(CurrentTool, args)), "")

(* C27: for every GET tool and every accepted argument value, parsing the query *)
(* string of the outbound path yields the supplied arguments, each declared     *)
(* parameter once with the caller's value and no other; list-deployments leaves *)
(* an omitted identifier out and, both omitted, asks for a path without "?".    *)
C27_QueryRoundTrip ==
  QueryCall =>
    /\ ParseQuery(EndpointTokens(CurrentTool, SchemaParse(CurrentTool, args)))
         = Supplied(CurrentTool, SchemaParse(CurrentTool, args))
    /\ (tool = "list-deployments" /\ args["applicationId"] = Undef /\ args["composeId"] = Undef)
         => calls[1].url = config.dokployUrl \o "/api/deployment.all"

(* the pieces are those of the endpoint the handler builds *)
QueryPiecesAgree ==
  (Len(calls) = 1 /\ tool \in QueryTools) => QueryCall

(* one result payload with one text item, or one error *)
OneOutcome ==
  \/ result.kind = "content" /\ result.error = NoError /\ raised.kind = "return"
  \/ result.kind = "error" /\ result.text = "" /\ result.error # NoError /\ raised.kind = "throw"

(* C28: every validated tool invocation ends in exactly one outcome, one result *)
(* payload with one text item or one error, at the step in which its outbound  *)
(* call completes, and the outcome stays as it is until the handler has         *)
(* returned; if every outbound call completes at some time, no invocation stays *)
(* pending for ever.                                                            *)
C28_EndsInOneOutcome ==
  /\ []((pc = "done" /\ SchemaAccepts(CurrentTool, args)) => (OneOutcome /\ Len(calls) = 1))
  /\ [][(pc = "awaiting" /\ outcome' # outcome) => (pc' = "done" /\ result' # NoResult)]_vars
  /\ [][(pc = "done" /\ pc' = "done") => result' = result]_vars
  /\ (pc = "awaiting") ~> (pc = "done")

C28_Witness ==
  /\ pc = "done"
  /\ tool = "get-logs"
  /\ outcome.kind = "rejected"
  /\ result.kind = "error"

LogTools == {"get-logs", "get-compose-logs"}

(* C29: get-logs and get-compose-logs return the upstream's logs as they are as *)
(* the result text when the success response is plain text or a JSON string,    *)
(* and the pretty-printed JSON of the response otherwise.                       *)
C29_LogsVerbatimOrPretty ==
  (pc = "done" /\ tool \in LogTools /\ outcome.kind = "response" /\ ResponseOk(outcome.status))
    => IF \E v \in JsonSamples : JsonStringify(v) = outcome.body
       THEN LET v == CHOOSE x \in JsonSamples : JsonStringify(x) = outcome.body
            IN  result = Content(IF v.t = "string" THEN v.s ELSE JsonPretty(v, 0))
       ELSE result = Content(outcome.body)

(* C30: the credential appears neither in content a resource or a prompt returns *)
(* nor in the debug log of a dokployRequest that succeeded: under two            *)
(* configurations that differ in apiToken only the content is the same and the   *)
(* log entries are the same.                                                     *)
C30_OutputsIndependentOfToken ==
  /\ (pc = "served" /\ other.pc = "served")
       => /\ config.apiToken # other.config.apiToken
          /\ tool = other.tool
          /\ result = other.result
          /\ console = << >>
  /\ (pc = "done" /\ other.pc = "done" /\ raised.kind = "return")
       => /\ config.apiToken # other.config.apiToken
          /\ calls[1].url = other.calls[1].url
          /\ console = other.console
          /\ Len(console) = (IF config.debug THEN 1 ELSE 0)

C30_Witness ==
  /\ pc = "done"
  /\ other.pc = "done"
  /\ raised.kind = "return"
  /\ config.debug
  /\ config.apiToken = "tok-env"
  /\ other.config.apiToken = "tok-A"
  /\ Len(console) = 1
  /\ HeaderValues(calls[1], "x-api-key") = {"tok-env"}

====
